---- MODULE Spec2Model ----
(***************************************************************************)
(* Type engine of cpp-type-inference (src/02_TypeClass/main.cpp, the last  *)
(* program of the file, lines 1630-3904): types, regions, environments,    *)
(* solved / unwrapRef / depend, convert, Constraints, generalize,          *)
(* instantiate, unifyType / unifyWithRef / unifyFunction and the drivers   *)
(* J and M.  The heap of shared_ptr nodes is an arena: a node is its       *)
(* index, a handle (RefType&, RefRegion&) is a location holding an index.  *)
(* An operation takes the state S and gives the state after it (and its    *)
(* value, as [s |-> state, v |-> value]); an exception is the state's err. *)
(***************************************************************************)
EXTENDS Integers, Sequences, FiniteSets, TLC

VARIABLES st, last, expr, resJ, resM

vars == <<st, last, expr, resJ, resM>>

(***************************************************************************)
(* Bounds of the model.                                                    *)
(***************************************************************************)
MaxRegions == 3
MaxTypes == 3
MaxOperations == 4
MaxExprDepth == 2
MaxInstances == 2
MaxList == 3
MaxOther == 2

\* the root environment has depth 1 (TypeEnvironment::depth default)
RootDepth == 1

Names == {"x", "y", "h"}
NoMap == [n \in Names |-> 0]

\* a local of the C++ code: Do([a \in {e} |-> body]) is body with a the value of e
Do(f) == f[CHOOSE d \in DOMAIN f : TRUE]

(***************************************************************************)
(* Nodes.  All records have one shape; a field a kind does not have is 0,  *)
(* "" or <<>>.                                                             *)
(***************************************************************************)
TypeNode(kind, name, base, p, r, region, cs, solve, depth, index) ==
  [kind |-> kind, name |-> name, base |-> base, p |-> p, r |-> r, region |-> region,
   cs |-> cs, solve |-> solve, depth |-> depth, index |-> index]

TBase(name) == TypeNode("Base", name, 0, 0, 0, 0, <<>>, 0, 0, 0)
TFunction(base, p, r) == TypeNode("Function", "", base, p, r, 0, <<>>, 0, 0, 0)
TVariable(cs, depth) == TypeNode("Variable", "", 0, 0, 0, 0, cs, 0, depth, 0)
TParam(cs, index) == TypeNode("Param", "", 0, 0, 0, 0, cs, 0, 0, index)
TTypeClass(cs, region) == TypeNode("TypeClass", "", 0, 0, 0, region, cs, 0, 0, 0)
TRef(base, p, region) == TypeNode("Ref", "", base, p, 0, region, <<>>, 0, 0, 0)

RegionNode(kind, env, solve, depth, index) ==
  [kind |-> kind, env |-> env, solve |-> solve, depth |-> depth, index |-> index]

RBase(env) == RegionNode("Base", env, 0, 0, 0)
RTemporary == RegionNode("Temporary", 0, 0, 0, 0)
RVariable(depth) == RegionNode("Variable", 0, 0, depth, 0)
RParam(index) == RegionNode("Param", 0, 0, 0, index)

\* TypeInfo: variant<RefType, Generic> type; RefRegion region
TypeInfo(gen, type, vals, rvals, region) ==
  [gen |-> gen, type |-> type, vals |-> vals, rvals |-> rvals, region |-> region]

\* Generic, and the RefType alternative of variant<RefType, Generic>
Generic(vals, rvals, type) == [gen |-> TRUE, vals |-> vals, rvals |-> rvals, type |-> type]
Mono(type) == [gen |-> FALSE, vals |-> <<>>, rvals |-> <<>>, type |-> type]

\* TypeEnvironment; live is FALSE once the C++ object (a local of Lambda::J / M) is gone
Env(parent, depth) == [parent |-> parent, depth |-> depth, map |-> NoMap, live |-> TRUE]

EmptyState ==
  [ty |-> <<>>, rg |-> <<>>, ti |-> <<>>, env |-> <<>>, loc |-> <<>>, rloc |-> <<>>,
   tm |-> [n \in {"fn", "ref", "number", "boolean"} |-> <<>>],
   fnG |-> Generic(<<>>, <<>>, 0), refG |-> Generic(<<>>, <<>>, 0),
   numberT |-> 0, booleanT |-> 0, clsSelf |-> 0, clsMethod |-> 0, log |-> <<>>,
   err |-> ""]

Raise(S, e) == IF S.err = "" THEN [S EXCEPT !.err = e] ELSE S

(***************************************************************************)
(* Handles.  A type handle is <<"p", i>> (paramType of a Function, type of *)
(* a Ref), <<"r", i>> (returnType), <<"ti", i>> (TypeInfo::type) or        *)
(* <<"loc", i>> (a local variable); a region handle is <<"ty", i>>         *)
(* (the region of a Ref / TypeClass), <<"ti", i>> or <<"loc", i>>.         *)
(***************************************************************************)
GetT(S, l) ==
  CASE l[1] = "p" -> S.ty[l[2]].p
    [] l[1] = "r" -> S.ty[l[2]].r
    [] l[1] = "ti" -> S.ti[l[2]].type
    [] OTHER -> S.loc[l[2]]

SetT(S, l, v) ==
  CASE l[1] = "p" -> [S EXCEPT !.ty[l[2]].p = v]
    [] l[1] = "r" -> [S EXCEPT !.ty[l[2]].r = v]
    [] l[1] = "ti" -> [S EXCEPT !.ti[l[2]].type = v]
    [] OTHER -> [S EXCEPT !.loc[l[2]] = v]

GetR(S, l) ==
  CASE l[1] = "ty" -> S.ty[l[2]].region
    [] l[1] = "ti" -> S.ti[l[2]].region
    [] OTHER -> S.rloc[l[2]]

SetR(S, l, v) ==
  CASE l[1] = "ty" -> [S EXCEPT !.ty[l[2]].region = v]
    [] l[1] = "ti" -> [S EXCEPT !.ti[l[2]].region = v]
    [] OTHER -> [S EXCEPT !.rloc[l[2]] = v]

\* a new local variable holding v
PushT(S, v) == [S EXCEPT !.loc = Append(@, v)]
TopT(S) == <<"loc", Len(S.loc)>>
PushR(S, v) == [S EXCEPT !.rloc = Append(@, v)]
TopR(S) == <<"loc", Len(S.rloc)>>
DropLocals(S) == [S EXCEPT !.loc = <<>>, !.rloc = <<>>]

(***************************************************************************)
(* TypeEnvironment factories                                               *)
(***************************************************************************)
newType(S, node) == [s |-> [S EXCEPT !.ty = Append(@, node)], v |-> Len(S.ty) + 1]
newRegion(S, node) == [s |-> [S EXCEPT !.rg = Append(@, node)], v |-> Len(S.rg) + 1]
newTypeInfo(S, sch, region) ==
  [s |-> [S EXCEPT !.ti = Append(@, TypeInfo(sch.gen, sch.type, sch.vals, sch.rvals, region))],
   v |-> Len(S.ti) + 1]
newEnv(S, parent) ==
  [s |-> [S EXCEPT !.env = Append(@, Env(parent, IF parent = 0 THEN RootDepth ELSE S.env[parent].depth + 1))],
   v |-> Len(S.env) + 1]

(***************************************************************************)
(* solved, for types and for regions: path compression                     *)
(***************************************************************************)
RECURSIVE solved(_, _)
solved(S, t) ==
  IF S.ty[t].kind = "Variable" /\ S.ty[t].solve # 0
  THEN Do([r \in {solved(S, S.ty[t].solve)} |->
         [s |-> [r.s EXCEPT !.ty[t].solve = r.v], v |-> r.v]])
  ELSE [s |-> S, v |-> t]

\* a region Variable solved to itself makes the C++ recursion endless: StackOverflow
RECURSIVE solvedRegion(_, _)
solvedRegion(S, g) ==
  IF S.rg[g].kind = "Variable" /\ S.rg[g].solve # 0
  THEN IF S.rg[g].solve = g
       THEN [s |-> Raise(S, "StackOverflow"), v |-> g]
       ELSE Do([r \in {solvedRegion(S, S.rg[g].solve)} |->
              [s |-> [r.s EXCEPT !.rg[g].solve = r.v], v |-> r.v]])
  ELSE [s |-> S, v |-> g]

\* type = solved(type) and region = solved(region) on a handle
solveT(S, l) == Do([a \in {solved(S, GetT(S, l))} |-> SetT(a.s, l, a.v)])
solveR(S, l) == Do([a \in {solvedRegion(S, GetR(S, l))} |-> SetR(a.s, l, a.v)])

\* the end of a solve chain, read without compressing (for the properties)
RECURSIVE Rep(_, _)
Rep(S, t) == IF S.ty[t].kind = "Variable" /\ S.ty[t].solve # 0 THEN Rep(S, S.ty[t].solve) ELSE t

RECURSIVE RepR(_, _)
RepR(S, g) ==
  IF S.rg[g].kind = "Variable" /\ S.rg[g].solve # 0 /\ S.rg[g].solve # g THEN RepR(S, S.rg[g].solve) ELSE g

\* the environment at depth d on the parent chain of e: while (depth != d) e = e->parent
RECURSIVE WalkUp(_, _, _)
WalkUp(S, e, d) == IF S.env[e].depth # d THEN WalkUp(S, S.env[e].parent, d) ELSE e

\* e1 is e2 or an ancestor of e2 (for the properties)
RECURSIVE IsAncestorOrSelf(_, _, _)
IsAncestorOrSelf(S, e1, e2) ==
  \/ e1 = e2
  \/ S.env[e2].parent # 0 /\ IsAncestorOrSelf(S, e1, S.env[e2].parent)

(***************************************************************************)
(* convert(region1, region2): region1 <- region2                           *)
(***************************************************************************)
\* mutant of convertBase: the two environments taken the other way round
convertBaseSwapped(S, l1, l2) ==
  LET r1env == S.rg[GetR(S, l1)].env
      r2env == S.rg[GetR(S, l2)].env
  IN IF S.env[r1env].depth > S.env[r2env].depth
     THEN [s |-> S, v |-> FALSE]
     ELSE IF r1env = WalkUp(S, r2env, S.env[r1env].depth)
          THEN [s |-> SetR(S, l2, GetR(S, l1)), v |-> TRUE]
          ELSE [s |-> S, v |-> FALSE]

\* the Base / Base branch; an environment that is gone is a dangling pointer
convertBase(S, l1, l2) ==
  LET r1env == S.rg[GetR(S, l2)].env
      r2env == S.rg[GetR(S, l1)].env
  IN IF ~S.env[r1env].live \/ ~S.env[r2env].live
     THEN [s |-> Raise(S, "DanglingEnvPointer"), v |-> FALSE]
     ELSE IF S.env[r1env].depth > S.env[r2env].depth
     THEN [s |-> S, v |-> FALSE]
     ELSE IF r1env = WalkUp(S, r2env, S.env[r1env].depth)
          THEN [s |-> SetR(S, l2, GetR(S, l1)), v |-> TRUE]
          ELSE [s |-> S, v |-> FALSE]

\* mutant of convertSolved: an unsolved region2 is refused when region1 is no Variable
convertSolvedNoWiden(S2, l1, l2, region1, region2) ==
  LET k1 == S2.rg[region1].kind
      k2 == S2.rg[region2].kind
  IN IF k1 = "Temporary" \/ (k1 = "Variable" /\ k2 = "Variable")
     THEN [s |-> SetR(IF k2 = "Variable" THEN [S2 EXCEPT !.rg[region2].solve = region1] ELSE S2,
                      l2, region1),
           v |-> TRUE]
     ELSE IF k1 = "Base" /\ k2 = "Base" THEN convertBase(S2, l1, l2)
     ELSE [s |-> S2, v |-> k1 = "Param" /\ region1 = region2]

\* convert after region1 = solved(region1); region2 = solved(region2)
convertSolved(S2, l1, l2, region1, region2) ==
  LET k1 == S2.rg[region1].kind
      k2 == S2.rg[region2].kind
  IN IF k1 = "Temporary"
     THEN [s |-> SetR(IF k2 = "Variable" THEN [S2 EXCEPT !.rg[region2].solve = region1] ELSE S2,
                      l2, region1),
           v |-> TRUE]
     ELSE IF k2 # "Temporary"
     THEN IF k2 = "Variable"
          THEN [s |-> SetR([S2 EXCEPT !.rg[region2].solve = region1], l2, region1), v |-> TRUE]
          ELSE IF k1 = "Variable"
          THEN [s |-> S2, v |-> FALSE]
          ELSE IF k1 = "Param" \/ k2 = "Param"
          THEN [s |-> S2, v |-> region1 = region2]
          ELSE convertBase(S2, l1, l2)
     ELSE [s |-> S2, v |-> FALSE]

convert(S, l1, l2) ==
  Do([S2 \in {solveR(solveR(S, l1), l2)} |->
    convertSolved(S2, l1, l2, GetR(S2, l1), GetR(S2, l2))])

(***************************************************************************)
(* Type classes.  The registry (TypeMap::typeClassMap) is fixed while the  *)
(* engine runs: class 1 is main()'s "TypeClass" with its method "method",  *)
(* class 2 derives from it, class 3 is unrelated to both.  Classes 4 to 7   *)
(* are further classes a program may register: one that derives from class *)
(* 1 and defines "method" again, an unrelated one that defines "method",   *)
(* one with both of these two roots as bases, and one under class 4.       *)
(***************************************************************************)
ClassTable ==
  << [name |-> "TypeClass", bases |-> <<>>, methods |-> {"method"}],
     [name |-> "Sub", bases |-> <<1>>, methods |-> {}],
     [name |-> "Other", bases |-> <<>>, methods |-> {}],
     [name |-> "Derived", bases |-> <<1>>, methods |-> {"method"}],
     [name |-> "Another", bases |-> <<>>, methods |-> {"method"}],
     [name |-> "Join", bases |-> <<1, 5>>, methods |-> {}],
     [name |-> "SubDerived", bases |-> <<4>>, methods |-> {}] >>

ClassIds == 1..Len(ClassTable)

\* TypeClass::derived
RECURSIVE derived(_, _)
derived(c, typeClass) ==
  \/ c = typeClass
  \/ \E k \in 1..Len(ClassTable[c].bases) : derived(ClassTable[c].bases[k], typeClass)

\* Constraints::has
has(list, typeClass) == \E k \in 1..Len(list) : derived(list[k], typeClass)

\* Constraints::merge: the two loops, with size taken before them
RECURSIVE mergeLoop(_, _, _, _, _)
mergeLoop(list, constraints, k, i, size) ==
  IF k > Len(constraints) THEN list
  ELSE IF i > size THEN mergeLoop(list, constraints, k + 1, 1, size)
  ELSE LET constraint == constraints[k]
       IN IF constraint # list[i] \/ derived(list[i], constraint)
          THEN mergeLoop(list, constraints, k, i + 1, size)
          ELSE IF derived(constraint, list[i])
               THEN mergeLoop(IF constraint # list[i] THEN [list EXCEPT ![i] = constraint] ELSE list,
                              constraints, k, i + 1, size)
               ELSE mergeLoop(Append(list, constraint), constraints, k, i + 1, size)

merge(list, constraints) ==
  IF constraints = <<>> THEN list
  ELSE IF list = <<>> THEN constraints
  ELSE mergeLoop(list, constraints, 1, 1, Len(list))

\* std::ranges::sort of a class list (by node address; the arena index here)
RECURSIVE SortList(_)
SortList(list) ==
  IF list = <<>> THEN <<>>
  ELSE Do([m \in {CHOOSE k \in 1..Len(list) : \A j \in 1..Len(list) : list[k] <= list[j]} |->
         <<list[m]>> \o SortList(SubSeq(list, 1, m - 1) \o SubSeq(list, m + 1, Len(list)))])

(***************************************************************************)
(* unwrapRef, getTypeName, getTypeClassList, applyConstraint               *)
(***************************************************************************)
\* the while loop of unwrapRef; n counts the Refs passed: more of them than there
\* are nodes means the loop never ends
RECURSIVE unwrapLoop(_, _, _)
unwrapLoop(S, t, n) ==
  IF S.ty[t].kind # "Ref" THEN [s |-> S, v |-> t]
  ELSE IF n > Len(S.ty) THEN [s |-> Raise(S, "Hang"), v |-> t]
  ELSE Do([r \in {solved(S, S.ty[t].p)} |->
         unwrapLoop([r.s EXCEPT !.ty[t].p = r.v], r.v, n + 1)])

unwrapRef(S, type) == Do([r \in {solved(S, type)} |-> unwrapLoop(r.s, r.v, 0)])

\* Type::getTypeName, "" for std::nullopt
getTypeName(S, t) ==
  CASE S.ty[t].kind = "Base" -> S.ty[t].name
    [] S.ty[t].kind \in {"Function", "Ref"} -> S.ty[S.ty[t].base].name
    [] OTHER -> ""

\* Type::getTypeClassList; a Ref delegates to its pointee without solved
RECURSIVE getTypeClassList(_, _, _)
getTypeClassList(S, t, n) ==
  CASE S.ty[t].kind \in {"Variable", "Param", "TypeClass"} -> S.ty[t].cs
    [] S.ty[t].kind = "Ref" -> IF n > Len(S.ty) THEN <<>> ELSE getTypeClassList(S, S.ty[t].p, n + 1)
    [] OTHER -> S.tm[getTypeName(S, t)]

\* mutant of applyConstraintTo: a Param is treated as any other type
applyConstraintToAnyKind(u, typeClasses) ==
  IF u.s.err # "" THEN u.s
  ELSE IF u.s.ty[u.v].kind = "Variable"
  THEN [u.s EXCEPT !.ty[u.v].cs = merge(@, typeClasses)]
  ELSE IF \A k \in 1..Len(typeClasses) : has(getTypeClassList(u.s, u.v, 0), typeClasses[k])
       THEN u.s
       ELSE Raise(u.s, "MissingClass")

\* applyConstraint after t = unwrapRef(type); u is the state and t
applyConstraintTo(u, typeClasses) ==
  IF u.s.err # "" THEN u.s
  ELSE IF u.s.ty[u.v].kind = "Variable"
  THEN [u.s EXCEPT !.ty[u.v].cs = merge(@, typeClasses)]
  ELSE IF \A k \in 1..Len(typeClasses) : has(getTypeClassList(u.s, u.v, 0), typeClasses[k])
       THEN u.s
       ELSE IF u.s.ty[u.v].kind = "Param"
            THEN Raise(u.s, "NotDeclaredParamConstraint")
            ELSE Raise(u.s, "MissingClass")

\* TypeMap::applyConstraint
applyConstraint(S, type, typeClasses) ==
  Do([u \in {unwrapRef(S, type)} |-> applyConstraintTo(u, typeClasses)])

(***************************************************************************)
(* depend(type, target): the occurs check.  path holds the nodes being     *)
(* visited; meeting one of them again is an endless recursion.             *)
(***************************************************************************)
RECURSIVE dependOn(_, _, _, _)
dependOn(S, type, target, path) ==
  IF type = target THEN "yes"
  ELSE IF type \in path THEN "overflow"
  ELSE LET x == S.ty[type]
       IN CASE x.kind = "Function" ->
                 IF x.p = target \/ x.r = target THEN "yes"
                 ELSE Do([d \in {dependOn(S, x.p, target, path \cup {type})} |->
                        IF d # "no" THEN d ELSE dependOn(S, x.r, target, path \cup {type})])
            [] x.kind = "Variable" ->
                 IF x.solve # 0 THEN dependOn(S, x.solve, target, path \cup {type}) ELSE "no"
            [] x.kind = "Ref" ->
                 IF x.p = target THEN "yes" ELSE dependOn(S, x.p, target, path \cup {type})
            [] OTHER -> "no"

depend(S, type, target) == dependOn(S, type, target, {})

(***************************************************************************)
(* TypeEnvironment::generalize.  The visitor works on the handle it is     *)
(* given (RefType& t) and returns the type, vals and regionVals.           *)
(***************************************************************************)
\* the inner if of generalizeRegion, region being solved
generalizeRegionVariable(S1, l, env, rv, region) ==
  IF S1.rg[region].kind = "Variable" /\ S1.env[env].depth < S1.rg[region].depth
  THEN Do([n \in {newRegion(S1, RParam(Len(rv)))} |->
         [s |-> SetR([n.s EXCEPT !.rg[region].solve = n.v], l, n.v),
          rvals |-> Append(rv, n.v)]])
  ELSE [s |-> S1, rvals |-> rv]

generalizeRegion(S, l, env, rv) ==
  LET var == S.rg[GetR(S, l)]
  IN IF var.kind # "Variable" THEN [s |-> S, rvals |-> rv]
     ELSE IF var.solve # 0
     THEN Do([a \in {solvedRegion(S, var.solve)} |->
            generalizeRegionVariable(SetR(a.s, l, a.v), l, env, rv, a.v)])
     ELSE generalizeRegionVariable(S, l, env, rv, GetR(S, l))

\* x.paramType = genParamType (or x.returnType, x.type) after the visit a of the
\* child at handle l
generalizeAssign(a, l) ==
  [a EXCEPT !.s = IF GetT(a.s, l) # a.v THEN SetT(a.s, l, a.v) ELSE a.s]

\* mutant of generalizeVariable: the Param does not take the constraints
generalizeVariableBare(S, t, v, rv) ==
  Do([n \in {newType(S, TParam(<<>>, Len(v)))} |->
    [s |-> [n.s EXCEPT !.ty[t].solve = n.v],
     v |-> n.v, vals |-> Append(v, n.v), rvals |-> rv]])

\* the free Variable t becomes a Param: its constraints move to the Param, its
\* solve is the Param, the Param is pushed on vals
generalizeVariable(S, t, v, rv) ==
  Do([n \in {newType(S, TParam(S.ty[t].cs, Len(v)))} |->
    [s |-> [n.s EXCEPT !.ty[t].cs = <<>>, !.ty[t].solve = n.v],
     v |-> n.v, vals |-> Append(v, n.v), rvals |-> rv]])

RECURSIVE generalizeVisit(_, _, _, _, _, _)
generalizeVisit(S, l, env, v, rv, path) ==
  LET t == GetT(S, l)
      x == S.ty[GetT(S, l)]
      same == [s |-> S, v |-> GetT(S, l), vals |-> v, rvals |-> rv]
  IN IF S.err # "" THEN same
     ELSE IF t \in path THEN [same EXCEPT !.s = Raise(S, "StackOverflow")]
     ELSE CASE x.kind = "Function" ->
            Do([a \in {generalizeAssign(generalizeVisit(S, <<"p", t>>, env, v, rv, path \cup {t}),
                                        <<"p", t>>)} |->
            Do([b \in {generalizeAssign(generalizeVisit(a.s, <<"r", t>>, env, a.vals, a.rvals,
                                                        path \cup {t}),
                                        <<"r", t>>)} |->
              [b EXCEPT !.v = t]])])
       [] x.kind = "Variable" ->
            IF x.solve # 0
            THEN Do([sv \in {solved(S, x.solve)} |->
                   generalizeVisit(SetT(sv.s, l, sv.v), l, env, v, rv, path)])
            ELSE IF S.env[env].depth < x.depth
            THEN generalizeVariable(S, t, v, rv)
            ELSE same
       [] x.kind = "TypeClass" ->
            Do([g \in {generalizeRegion(S, <<"ty", t>>, env, rv)} |->
              [s |-> g.s, v |-> t, vals |-> v, rvals |-> g.rvals]])
       [] x.kind = "Ref" ->
            Do([a \in {generalizeAssign(generalizeVisit(S, <<"p", t>>, env, v, rv, path \cup {t}),
                                        <<"p", t>>)} |->
              IF a.s.err # "" THEN [a EXCEPT !.v = t]
              ELSE Do([g \in {generalizeRegion(a.s, <<"ty", t>>, env, a.rvals)} |->
                     [s |-> g.s, v |-> t, vals |-> a.vals, rvals |-> g.rvals]])])
       [] OTHER -> same

\* the result is the state and the variant<RefType, Generic>
generalize(S, env, type, vals) ==
  Do([S0 \in {PushT(S, type)} |->
  Do([g \in {generalizeVisit(S0, TopT(S0), env, vals, <<>>, {})} |->
    [s |-> g.s,
     v |-> IF Len(g.vals) > 0 \/ Len(g.rvals) > 0
           THEN Generic(g.vals, g.rvals, g.v)
           ELSE Mono(g.v)]])])

(***************************************************************************)
(* TypeEnvironment::instantiate                                            *)
(***************************************************************************)
\* the first loop: vals[i] is a fresh Variable with the Param's constraints when
\* the caller gave none (0), else the caller's type checked against them
RECURSIVE instantiateVals(_, _, _, _, _)

\* mutant of instantiateVals: the Params stand for themselves
instantiateValsShared(S, env, G, vals, i) ==
  [s |-> S, v |-> [k \in 1..Len(vals) |-> IF vals[k] = 0 THEN G.vals[k] ELSE vals[k]]]

instantiateVals(S, env, G, vals, i) ==
  IF i > Len(G.vals) \/ S.err # "" THEN [s |-> S, v |-> vals]
  ELSE IF vals[i] = 0
  THEN Do([n \in {newType(S, TVariable(S.ty[G.vals[i]].cs, S.env[env].depth))} |->
         instantiateVals(n.s, env, G, [vals EXCEPT ![i] = n.v], i + 1)])
  ELSE instantiateVals(applyConstraint(S, vals[i], S.ty[G.vals[i]].cs), env, G, vals, i + 1)

\* the second loop: a fresh region Variable for every regionVals position
RECURSIVE instantiateRegionVals(_, _, _, _)
instantiateRegionVals(S, env, G, regionVals) ==
  IF Len(regionVals) >= Len(G.rvals) THEN [s |-> S, v |-> regionVals]
  ELSE Do([n \in {newRegion(S, RVariable(S.env[env].depth))} |->
         instantiateRegionVals(n.s, env, G, Append(regionVals, n.v))])

\* mutant of instantiateRegion: a region Param stays
instantiateRegionKeep(S, region, rv, rp) == region

instantiateRegion(S, region, rv, rp) ==
  LET x == S.rg[region]
  IN IF x.kind = "Param" /\ x.index < Len(rp) /\ rp[x.index + 1] = region
     THEN rv[x.index + 1]
     ELSE region

\* the visitor fn of instantiate; t is held by value
RECURSIVE instantiateVisit(_, _, _, _, _, _, _)
instantiateVisit(S, t, v, p, rv, rp, path) ==
  LET x == S.ty[t]
  IN IF S.err # "" THEN [s |-> S, v |-> t]
     ELSE IF t \in path THEN [s |-> Raise(S, "StackOverflow"), v |-> t]
     ELSE CASE x.kind = "Function" ->
            Do([a \in {instantiateVisit(S, x.p, v, p, rv, rp, path \cup {t})} |->
            Do([b \in {instantiateVisit(a.s, x.r, v, p, rv, rp, path \cup {t})} |->
              IF x.p = a.v /\ x.r = b.v
              THEN [s |-> b.s, v |-> t]
              ELSE newType(b.s, TFunction(x.base, a.v, b.v))])])
       [] x.kind = "Param" ->
            IF x.index < Len(p) /\ p[x.index + 1] = t
            THEN [s |-> S, v |-> v[x.index + 1]]
            ELSE [s |-> S, v |-> t]
       [] x.kind = "TypeClass" ->
            Do([instRegion \in {instantiateRegion(S, x.region, rv, rp)} |->
              IF x.region = instRegion
              THEN [s |-> S, v |-> t]
              ELSE newType(S, TTypeClass(x.cs, instRegion))])
       [] x.kind = "Ref" ->
            Do([a \in {instantiateVisit(S, x.p, v, p, rv, rp, path \cup {t})} |->
            Do([instRegion \in {instantiateRegion(a.s, x.region, rv, rp)} |->
              IF x.p = a.v /\ x.region = instRegion
              THEN [s |-> a.s, v |-> t]
              ELSE newType(a.s, TRef(x.base, a.v, instRegion))])])
       [] OTHER -> [s |-> S, v |-> t]

\* vals.resize(type.vals.size()): cut or padded with null handles
Resize(vals, n) == [i \in 1..n |-> IF i <= Len(vals) THEN vals[i] ELSE 0]

instantiate(S, env, G, vals) ==
  Do([a \in {instantiateVals(S, env, G, Resize(vals, Len(G.vals)), 1)} |->
    IF a.s.err # "" THEN [s |-> a.s, v |-> 0]
    ELSE Do([b \in {instantiateRegionVals(a.s, env, G, <<>>)} |->
           instantiateVisit(b.s, G.type, a.v, G.vals, b.v, G.rvals, {})])])

(***************************************************************************)
(* unifyType, unifyWithRef, unifyFunction.  A result is the state and the  *)
(* ImplicitCastPattern.  A failed assert(false) is the error AssertRegion. *)
(***************************************************************************)
\* mutant of unifyVariables: the shallower Variable is solved to the deeper one
unifyVariablesInward(S, l1, l2) ==
  LET type1 == GetT(S, l1)
      type2 == GetT(S, l2)
  IN IF S.ty[type1].depth > S.ty[type2].depth
     THEN SetT([S EXCEPT !.ty[type1].cs = merge(@, S.ty[type2].cs),
                         !.ty[type2].solve = type1], l2, type1)
     ELSE SetT([S EXCEPT !.ty[type2].cs = merge(@, S.ty[type1].cs),
                         !.ty[type1].solve = type2], l1, type2)

\* the branch of unifyType for two unsolved Variables
unifyVariables(S, l1, l2) ==
  LET type1 == GetT(S, l1)
      type2 == GetT(S, l2)
  IN IF S.ty[type1].depth < S.ty[type2].depth
     THEN SetT([S EXCEPT !.ty[type1].cs = merge(@, S.ty[type2].cs),
                         !.ty[type2].solve = type1], l2, type1)
     ELSE SetT([S EXCEPT !.ty[type2].cs = merge(@, S.ty[type1].cs),
                         !.ty[type1].solve = type2], l1, type2)

\* the branch of unifyType for the Variable at handle lv and the other type at lo
unifyVariableWith(S, lv, lo) ==
  LET tv == GetT(S, lv)
      to == GetT(S, lo)
  IN Do([d \in {depend(S, tv, to)} |->
       IF d = "yes" THEN Raise(S, "RecursiveUnification")
       ELSE IF d = "overflow" THEN Raise(S, "StackOverflow")
       ELSE Do([A \in {applyConstraint(S, to, S.ty[tv].cs)} |->
              IF A.err # "" THEN A
              ELSE SetT([A EXCEPT !.ty[tv].solve = to], lv, to)])])

None(S) == [s |-> S, v |-> "NONE"]

\* if (!convert(k1.region, k2.region)) assert(false);
convertOrAssert(S, type1, type2) ==
  IF S.err # "" THEN S
  ELSE Do([c \in {convert(S, <<"ty", type1>>, <<"ty", type2>>)} |->
         IF c.s.err = "" /\ ~c.v THEN Raise(c.s, "AssertRegion") ELSE c.s])

\* the TypeClass / TypeClass branch of unifyType, the two lists being sorted
unifyTypeClasses(S3, l1, type1, type2) ==
  Do([ret \in {S3.ty[type1].cs # S3.ty[type2].cs} |->
  Do([T \in {convertOrAssert(IF ret THEN applyConstraint(S3, type2, S3.ty[type1].cs) ELSE S3,
                             type1, type2)} |->
    IF T.err # "" THEN None(T)
    ELSE IF ret THEN [s |-> T, v |-> "TYPECLASS"]
    ELSE None(SetT(T, l1, type2))])])

RECURSIVE unifyTypeOn(_, _, _, _, _)

\* mutant of unifyFunctions: the return types are left alone
unifyFunctionsParamOnly(S2, l1, type1, type2, here) ==
  Do([T \in {unifyTypeOn(S2, <<"p", type1>>, <<"p", type2>>, FALSE, here).s} |->
    IF T.err # "" THEN None(T)
    ELSE IF T.ty[type1].p = T.ty[type2].p /\ T.ty[type1].r = T.ty[type2].r
    THEN None(SetT(T, l1, type2))
    ELSE None(T)])

\* the Function / Function branch of unifyType
unifyFunctions(S2, l1, type1, type2, here) ==
  Do([u \in {unifyTypeOn(S2, <<"p", type1>>, <<"p", type2>>, FALSE, here)} |->
  Do([T \in {unifyTypeOn(u.s, <<"r", type1>>, <<"r", type2>>, FALSE, here).s} |->
    IF T.err # "" THEN None(T)
    ELSE IF T.ty[type1].p = T.ty[type2].p /\ T.ty[type1].r = T.ty[type2].r
    THEN None(SetT(T, l1, type2))
    ELSE None(T)])])

\* the Ref / Ref branch of unifyType
unifyRefs(S2, l1, type1, type2, here) ==
  Do([u \in {unifyTypeOn(S2, <<"p", type1>>, <<"p", type2>>, FALSE, here)} |->
  Do([T \in {convertOrAssert(u.s, type1, type2)} |->
    IF T.err # "" THEN None(T)
    ELSE IF T.ty[type1].p = T.ty[type2].p
    THEN None(SetT(T, l1, type2))
    ELSE None(T)])])

\* unifyType after type1 = solved(type1); type2 = solved(type2); path holds the
\* pairs being unified: meeting one of them again is an endless recursion
unifySolved(S2, l1, l2, implicitCast, path, type1, type2) ==
  LET k1 == S2.ty[type1].kind
      k2 == S2.ty[type2].kind
  IN IF type1 = type2 THEN None(S2)
     ELSE IF <<type1, type2>> \in path THEN None(Raise(S2, "StackOverflow"))
     ELSE IF k1 = "Variable"
     THEN IF k2 = "Variable" THEN None(unifyVariables(S2, l1, l2))
          ELSE None(unifyVariableWith(S2, l1, l2))
     ELSE IF k2 = "Variable" THEN None(unifyVariableWith(S2, l2, l1))
     ELSE IF k1 # k2 THEN None(Raise(S2, "TypeMismatch"))
     ELSE IF k1 = "Function"
     THEN unifyFunctions(S2, l1, type1, type2, path \cup {<<type1, type2>>})
     ELSE IF implicitCast /\ k1 = "TypeClass"
     THEN unifyTypeClasses([S2 EXCEPT !.ty[type1].cs = SortList(@), !.ty[type2].cs = SortList(@)],
                           l1, type1, type2)
     ELSE IF k1 = "Ref"
     THEN unifyRefs(S2, l1, type1, type2, path \cup {<<type1, type2>>})
     ELSE None(Raise(S2, "TypeMismatch"))

unifyTypeOn(S, l1, l2, implicitCast, path) ==
  IF S.err # "" THEN None(S)
  ELSE Do([S2 \in {solveT(solveT(S, l1), l2)} |->
         unifySolved(S2, l1, l2, implicitCast, path, GetT(S2, l1), GetT(S2, l2))])

unifyType(S, l1, l2, implicitCast) == unifyTypeOn(S, l1, l2, implicitCast, {})

\* then the cast c is returned, unless the state has an error
Returning(S, c) == [s |-> S, v |-> IF S.err = "" THEN c ELSE "NONE"]

\* mutant of unifyWithRefSolved: an unsolved Variable type2 is widened as well
unifyWithRefAnyKind(S2, l1, type2, type1, t2) ==
  LET k1 == S2.ty[type1].kind
      k2 == S2.ty[t2].kind
  IN IF k1 # k2 /\ k1 = "TypeClass"
     THEN Do([A \in {applyConstraint(S2, t2, S2.ty[type1].cs)} |->
            IF A.err # "" THEN None(A)
            ELSE Do([c \in {convert(A, <<"ti", type2>>, <<"ty", type1>>)} |->
                   Returning(IF c.s.err = "" /\ ~c.v THEN Raise(c.s, "AssertRegion") ELSE c.s,
                             "TYPECLASS")])])
     ELSE IF k1 # k2 /\ k1 = "Ref"
     THEN Do([u \in {unifyType(S2, <<"p", type1>>, <<"ti", type2>>, FALSE)} |->
            IF u.s.err # "" THEN None(u.s)
            ELSE Do([c \in {convert(u.s, <<"ti", type2>>, <<"ty", type1>>)} |->
                   Returning(IF c.s.err = "" /\ ~c.v THEN Raise(c.s, "AssertRegion") ELSE c.s,
                             "REFERENCE")])])
     ELSE unifyType(S2, l1, <<"ti", type2>>, TRUE)

\* unifyWithRef after the two solved; type2 is a TypeInfo, its type the handle
\* <<"ti", type2>>, its region the handle <<"ti", type2>>
unifyWithRefSolved(S2, l1, type2, type1, t2) ==
  LET k1 == S2.ty[type1].kind
      k2 == S2.ty[t2].kind
  IN IF k1 # k2 /\ k2 # "Variable" /\ k1 = "TypeClass"
     THEN Do([A \in {applyConstraint(S2, t2, S2.ty[type1].cs)} |->
            IF A.err # "" THEN None(A)
            ELSE Do([c \in {convert(A, <<"ti", type2>>, <<"ty", type1>>)} |->
                   Returning(IF c.s.err = "" /\ ~c.v THEN Raise(c.s, "AssertRegion") ELSE c.s,
                             "TYPECLASS")])])
     ELSE IF k1 # k2 /\ k2 # "Variable" /\ k1 = "Ref"
     THEN Do([u \in {unifyType(S2, <<"p", type1>>, <<"ti", type2>>, FALSE)} |->
            IF u.s.err # "" THEN None(u.s)
            ELSE Do([c \in {convert(u.s, <<"ti", type2>>, <<"ty", type1>>)} |->
                   Returning(IF c.s.err = "" /\ ~c.v THEN Raise(c.s, "AssertRegion") ELSE c.s,
                             "REFERENCE")])])
     ELSE unifyType(S2, l1, <<"ti", type2>>, TRUE)

unifyWithRef(S, l1, type2) ==
  IF S.err # "" THEN None(S)
  ELSE Do([S2 \in {solveT(solveT(S, l1), <<"ti", type2>>)} |->
         unifyWithRefSolved(S2, l1, type2, GetT(S2, l1), S2.ti[type2].type)])

\* mutant of unifyFunction: a Variable is not a function
unifyFunctionOnly(S, env, type1, type2p, type2r) ==
  IF S.err # "" THEN [s |-> S, v |-> <<"NONE">>]
  ELSE Do([a \in {solved(S, type1)} |->
         IF a.s.ty[a.v].kind = "Function"
         THEN Do([u \in {unifyWithRef(a.s, <<"p", a.v>>, type2p)} |->
              Do([w \in {unifyWithRef(u.s, <<"r", a.v>>, type2r)} |->
                [s |-> w.s, v |-> <<u.v, w.v>>]])])
         ELSE [s |-> Raise(a.s, "TypeMismatch"), v |-> <<"NONE">>]])

\* the result is <<cast of the parameter, cast of the return>>, or <<"NONE">> when
\* type1 was a Variable
unifyFunction(S, env, type1, type2p, type2r) ==
  IF S.err # "" THEN [s |-> S, v |-> <<"NONE">>]
  ELSE Do([a \in {solved(S, type1)} |->
         IF a.s.ty[a.v].kind = "Function"
         THEN Do([u \in {unifyWithRef(a.s, <<"p", a.v>>, type2p)} |->
              Do([w \in {unifyWithRef(u.s, <<"r", a.v>>, type2r)} |->
                [s |-> w.s, v |-> <<u.v, w.v>>]])])
         ELSE IF a.s.ty[a.v].kind = "Variable"
         THEN Do([f \in {instantiate(a.s, env, a.s.fnG,
                                     <<a.s.ti[type2p].type, a.s.ti[type2r].type>>)} |->
                [s |-> IF f.s.err # "" THEN f.s ELSE [f.s EXCEPT !.ty[a.v].solve = f.v],
                 v |-> <<"NONE">>]])
         ELSE [s |-> Raise(a.s, "TypeMismatch"), v |-> <<"NONE">>]])

(***************************************************************************)
(* unify of src/01_AlgorithmJ_AlgorithmM/main.cpp: the plain unification   *)
(* of the first program, over Base, Function and Variable, the arguments   *)
(* held by value.                                                          *)
(***************************************************************************)
\* the branch of unify for the Variable tv and the other type to
unifyPlainVariableWith(S, tv, to) ==
  Do([d \in {depend(S, tv, to)} |->
    IF d = "yes" THEN Raise(S, "RecursiveUnification")
    ELSE IF d = "overflow" THEN Raise(S, "StackOverflow")
    ELSE [S EXCEPT !.ty[tv].solve = to]])

RECURSIVE unifyOn(_, _, _, _)

\* unify after t1 = solved(type1); t2 = solved(type2)
unifyPlainSolved(S2, t1, t2, path) ==
  LET k1 == S2.ty[t1].kind
      k2 == S2.ty[t2].kind
  IN IF t1 = t2 THEN S2
     ELSE IF <<t1, t2>> \in path THEN Raise(S2, "StackOverflow")
     ELSE IF k1 = "Variable"
     THEN IF k2 = "Variable"
          THEN IF S2.ty[t1].depth < S2.ty[t2].depth
               THEN [S2 EXCEPT !.ty[t2].solve = t1]
               ELSE [S2 EXCEPT !.ty[t1].solve = t2]
          ELSE unifyPlainVariableWith(S2, t1, t2)
     ELSE IF k2 = "Variable" THEN unifyPlainVariableWith(S2, t2, t1)
     ELSE IF k1 = k2 /\ k1 = "Function"
     THEN unifyOn(unifyOn(S2, S2.ty[t1].p, S2.ty[t2].p, path \cup {<<t1, t2>>}),
                  S2.ty[t1].r, S2.ty[t2].r, path \cup {<<t1, t2>>})
     ELSE Raise(S2, "TypeMismatch")

unifyOn(S, type1, type2, path) ==
  IF S.err # "" THEN S
  ELSE Do([a \in {solved(S, type1)} |->
       Do([b \in {solved(a.s, type2)} |->
         unifyPlainSolved(b.s, a.v, b.v, path)])])

unify(S, type1, type2) == unifyOn(S, type1, type2, {})

(***************************************************************************)
(* unify of src/02_TypeClass/main.cpp before regions: Variables carry      *)
(* constraints, a TypeClass type on the left takes any type on the right   *)
(* that implements its classes.                                            *)
(***************************************************************************)
\* the branch of unify for the Variable tv and the other type to
unify2VariableWith(S, tv, to) ==
  Do([d \in {depend(S, tv, to)} |->
    IF d = "yes" THEN Raise(S, "RecursiveUnification")
    ELSE IF d = "overflow" THEN Raise(S, "StackOverflow")
    ELSE Do([A \in {applyConstraint(S, to, S.ty[tv].cs)} |->
           IF A.err # "" THEN A ELSE [A EXCEPT !.ty[tv].solve = to]])])

\* the branch of unify for two unsolved Variables
unify2Variables(S2, t1, t2) ==
  IF S2.ty[t1].depth < S2.ty[t2].depth
  THEN [S2 EXCEPT !.ty[t1].cs = merge(@, S2.ty[t2].cs), !.ty[t2].solve = t1]
  ELSE [S2 EXCEPT !.ty[t2].cs = merge(@, S2.ty[t1].cs), !.ty[t1].solve = t2]

RECURSIVE unify2On(_, _, _, _)

\* unify after t1 = solved(type1); t2 = solved(type2)
unify2Solved(S2, t1, t2, path) ==
  LET k1 == S2.ty[t1].kind
      k2 == S2.ty[t2].kind
  IN IF t1 = t2 THEN S2
     ELSE IF <<t1, t2>> \in path THEN Raise(S2, "StackOverflow")
     ELSE IF k1 = "Variable"
     THEN IF k2 = "Variable" THEN unify2Variables(S2, t1, t2)
          ELSE unify2VariableWith(S2, t1, t2)
     ELSE IF k2 = "Variable" THEN unify2VariableWith(S2, t2, t1)
     ELSE IF k1 = "TypeClass" THEN applyConstraint(S2, t2, S2.ty[t1].cs)
     ELSE IF k1 = k2 /\ k1 = "Function"
     THEN unify2On(unify2On(S2, S2.ty[t1].p, S2.ty[t2].p, path \cup {<<t1, t2>>}),
                   S2.ty[t1].r, S2.ty[t2].r, path \cup {<<t1, t2>>})
     ELSE Raise(S2, "TypeMismatch")

unify2On(S, type1, type2, path) ==
  IF S.err # "" THEN S
  ELSE Do([a \in {solved(S, type1)} |->
       Do([b \in {solved(a.s, type2)} |->
         unify2Solved(b.s, a.v, b.v, path)])])

unify2(S, type1, type2) == unify2On(S, type1, type2, {})

(***************************************************************************)
(* What the last operation was: its arguments, its outcome and the state   *)
(* it started from.                                                        *)
(***************************************************************************)
Last(op, a, b, flag, ok, cast, h1, h2, sch, pre) ==
  [op |-> op, a |-> a, b |-> b, flag |-> flag, ok |-> ok, cast |-> cast, h1 |-> h1, h2 |-> h2,
   sch |-> sch, err |-> "", n |-> 0, built |-> 0, inst |-> <<>>, list |-> <<>>, casts |-> <<>>,
   pre |-> pre]

NoLast == Last("none", 0, 0, FALSE, TRUE, "", 0, 0, Mono(0), EmptyState)

NoRun == [done |-> FALSE, err |-> "", type |-> <<>>, s |-> EmptyState]

(***************************************************************************)
(* The environments the engine operations are called with: a root scope,   *)
(* a scope inside it, a scope inside that one, and a second scope inside   *)
(* the root.                                                               *)
(***************************************************************************)
EnvRoot == 1
EnvA == 2
EnvB == 3
EnvC == 4

WithScopes(S) ==
  newEnv(newEnv(newEnv(newEnv(S, 0).s, EnvRoot).s, EnvA).s, EnvRoot).s

(***************************************************************************)
(* main(): the builtin types.  builtin.fn and builtin.ref are the          *)
(* generalized 'a -> 'b and 'a& at r; boolean implements class 1, whose    *)
(* method is 'a -> 'a -> 'a over the class's own Param.                    *)
(***************************************************************************)
\* var(env), tc(env, ...), ref(typeMap, env, t), fun(typeMap, env, p, r), info(env, t)
var(S, env) == newType(S, TVariable(<<>>, S.env[env].depth + 1))

tc(S, env, cs) ==
  Do([g \in {newRegion(S, RVariable(S.env[env].depth + 1))} |->
    newType(g.s, TTypeClass(cs, g.v))])

ref(S, env, type) == instantiate(S, env, S.refG, <<type>>)

fun(S, env, paramType, returnType) == instantiate(S, env, S.fnG, <<paramType, returnType>>)

info(S, env, sch) ==
  Do([g \in {newRegion(S, RBase(env))} |-> newTypeInfo(g.s, sch, g.v)])

\* builtin.fn = generalize(fun(env, base(env, "fn"), var(env), var(env)))
WithFn(S) ==
  Do([fb \in {newType(S, TBase("fn"))} |->
  Do([fp \in {var(fb.s, EnvRoot)} |->
  Do([fr \in {var(fp.s, EnvRoot)} |->
  Do([f \in {newType(fr.s, TFunction(fb.v, fp.v, fr.v))} |->
  Do([g \in {generalize(f.s, EnvRoot, f.v, <<>>)} |->
    [g.s EXCEPT !.fnG = g.v]])])])])])

\* builtin.ref = generalize(ref(env, base(env, "ref"), var(env)))
WithRef(S) ==
  Do([rb \in {newType(S, TBase("ref"))} |->
  Do([rp \in {var(rb.s, EnvRoot)} |->
  Do([rr \in {newRegion(rp.s, RVariable(RootDepth + 1))} |->
  Do([r \in {newType(rr.s, TRef(rb.v, rp.v, rr.v))} |->
  Do([g \in {generalize(r.s, EnvRoot, r.v, <<>>)} |->
    [g.s EXCEPT !.refG = g.v]])])])])])

\* number and boolean
WithBases(S) ==
  Do([n \in {newType(S, TBase("number"))} |->
  Do([b \in {newType(n.s, TBase("boolean"))} |->
    [b.s EXCEPT !.numberT = n.v, !.booleanT = b.v]])])

\* the class "TypeClass" and its implementation by boolean
WithClass(S) ==
  Do([valT \in {newType(S, TParam(<<>>, 0))} |->
  Do([m1 \in {fun(valT.s, EnvRoot, valT.v, valT.v)} |->
  Do([m2 \in {fun(m1.s, EnvRoot, valT.v, m1.v)} |->
    [m2.s EXCEPT !.clsSelf = valT.v, !.clsMethod = m2.v, !.tm["boolean"] = <<1>>]])])])

Prelude == DropLocals(WithClass(WithBases(WithRef(WithFn(WithScopes(EmptyState))))))

PreludeTypes == Len(Prelude.ty)

(***************************************************************************)
(* SpecRegion: region nodes are made and converted.                        *)
(***************************************************************************)
RegionInit ==
  /\ st = WithScopes(EmptyState)
  /\ last = NoLast
  /\ expr = <<>>
  /\ resJ = NoRun
  /\ resM = NoRun

NewRegionNode(node) ==
  /\ st.err = ""
  /\ Len(st.rg) < MaxRegions
  /\ st' = newRegion(st, node).s
  /\ last' = NoLast
  /\ UNCHANGED <<expr, resJ, resM>>

NewRegionBase == \E e \in 1..Len(st.env) : NewRegionNode(RBase(e))

NewRegionTemporary == NewRegionNode(RTemporary)

NewRegionVariable == NewRegionNode(RVariable(RootDepth + 1))

NewRegionParam == NewRegionNode(RParam(0))

\* bool ok = convert(region1, region2), the caller holding the two handles
Convert ==
  \E i \in 1..Len(st.rg), j \in 1..Len(st.rg) :
    /\ st.err = ""
    /\ \E c \in {convert(PushR(PushR(st, i), j), <<"loc", 1>>, <<"loc", 2>>)} :
         /\ st' = DropLocals(c.s)
         /\ last' = [Last("convert", i, j, FALSE, c.v, "", GetR(c.s, <<"loc", 1>>),
                          GetR(c.s, <<"loc", 2>>), Mono(0), st) EXCEPT !.err = c.s.err]
    /\ UNCHANGED <<expr, resJ, resM>>

RegionNext ==
  \/ NewRegionBase
  \/ NewRegionTemporary
  \/ NewRegionVariable
  \/ NewRegionParam
  \/ Convert

SpecRegion == RegionInit /\ [][RegionNext]_vars

(***************************************************************************)
(* Properties of convert (SpecRegion)                                      *)
(***************************************************************************)
\* the nodes the two arguments of the last convert resolved to when it was called
ConvR1 == RepR(last.pre, last.a)
ConvR2 == RepR(last.pre, last.b)
ConvK1 == last.pre.rg[ConvR1].kind
ConvK2 == last.pre.rg[ConvR2].kind
Converted == last.op = "convert" /\ last.err = ""
ConvertedBases == Converted /\ ConvK1 = "Base" /\ ConvK2 = "Base"
NothingSolved == \A g \in 1..Len(last.pre.rg) : last.pre.rg[g].solve = 0 => st.rg[g].solve = 0

\* C9 as claimed: convert(Base{e1} <- Base{e2}) succeeds iff e1 is e2 or an ancestor
\* of e2, and on success the handle r2 holds the node of r1.
C9_AsClaimed ==
  ConvertedBases =>
    /\ last.ok <=> IsAncestorOrSelf(st, last.pre.rg[ConvR1].env, last.pre.rg[ConvR2].env)
    /\ last.ok => last.h2 = last.h1

\* C9 amended: convert(Base{e1} <- Base{e2}) succeeds iff e2 is e1 or an ancestor of
\* e1 (the source region r2 belongs to an enclosing scope of the target r1); on
\* success the handle r2 holds the node of r1, on failure both handles keep theirs.
C9_BaseInclusion ==
  ConvertedBases =>
    /\ last.ok <=> IsAncestorOrSelf(st, last.pre.rg[ConvR2].env, last.pre.rg[ConvR1].env)
    /\ last.h1 = ConvR1
    /\ last.ok => last.h2 = ConvR1
    /\ ~last.ok => last.h2 = ConvR2
    /\ NothingSolved

C9_Witness ==
  /\ ConvertedBases
  /\ last.ok
  /\ last.pre.rg[ConvR1].env = EnvB
  /\ last.pre.rg[ConvR2].env = EnvRoot
  /\ last.h2 = ConvR1

\* C10 as claimed: with r1 an unsolved Variable and r2 a Variable, Temporary or Base
\* convert succeeds and r2 resolves to r1; with r1 a Base and r2 an unsolved Variable
\* it fails and solves nothing.
C10_AsClaimed ==
  Converted =>
    /\ (ConvK1 = "Variable" /\ ConvK2 \in {"Variable", "Temporary", "Base"}) =>
         (last.ok /\ RepR(st, last.b) = ConvR1)
    /\ (ConvK1 = "Base" /\ ConvK2 = "Variable") => (~last.ok /\ NothingSolved)

\* C10 amended: with r2 an unsolved Variable and r1 a Variable, Temporary or Base
\* convert succeeds and r2 resolves to r1 (the Variable r2 is solved to r1's node and
\* the handle r2 holds it); with r1 an unsolved Variable and r2 a Temporary or a Base
\* it fails and solves nothing.
C10_VariableRows ==
  Converted =>
    /\ (ConvK2 = "Variable" /\ ConvK1 \in {"Variable", "Temporary", "Base"}) =>
         /\ last.ok
         /\ st.rg[ConvR2].solve = ConvR1
         /\ RepR(st, last.b) = ConvR1
         /\ last.h2 = ConvR1
    /\ (ConvK1 = "Variable" /\ ConvK2 \in {"Temporary", "Base"}) => (~last.ok /\ NothingSolved)

C10_Witness ==
  /\ Converted
  /\ ConvK1 = "Base"
  /\ ConvK2 = "Variable"
  /\ last.ok
  /\ st.rg[ConvR2].solve = ConvR1

\* C11: convert(Temporary <- x) succeeds for every region x, solving x to Temporary
\* when x is an unsolved Variable, and after every successful convert(r1, r2) the
\* two handles of the caller hold the same Region node.
C11_LatticeLaws ==
  last.op = "convert" =>
    /\ ConvK1 = "Temporary" =>
         /\ last.err = ""
         /\ last.ok
         /\ ConvK2 = "Variable" => st.rg[ConvR2].solve = ConvR1
    /\ (last.err = "" /\ last.ok) => last.h1 = last.h2

(***************************************************************************)
(* SpecUnify: types are built over the builtin ones and unified.           *)
(***************************************************************************)
UnifyInit ==
  /\ st = Prelude
  /\ last = NoLast
  /\ expr = <<>>
  /\ resJ = NoRun
  /\ resM = NoRun

\* the types an operation may be given: number, boolean and the types built
Usable(S) == {S.numberT, S.booleanT} \cup (PreludeTypes + 1 .. Len(S.ty))

\* types are built before the first unification
CanBuildType == st.err = "" /\ last.op = "none" /\ Len(st.ty) < PreludeTypes + MaxTypes

\* the types built so far, and the operations run so far: the types built and the
\* operations on them
BuiltCount == IF last.op = "none" THEN Len(st.ty) - PreludeTypes ELSE last.built

Operations == BuiltCount + last.n

Built(S) ==
  /\ st' = DropLocals(S)
  /\ last' = NoLast
  /\ UNCHANGED <<expr, resJ, resM>>

\* a region for a new Ref or TypeClass
RegionChoices == {RTemporary, RVariable(RootDepth + 1)}

NewTypeVariable ==
  \E v \in {TVariable(<<>>, RootDepth), TVariable(<<>>, RootDepth + 1), TVariable(<<1>>, RootDepth + 1)} :
    CanBuildType /\ Built(newType(st, v).s)

NewTypeFunction ==
  \E p \in Usable(st), r \in Usable(st) :
    CanBuildType /\ Built(fun(st, EnvRoot, p, r).s)

NewTypeRef ==
  \E p \in Usable(st), g \in RegionChoices :
    /\ CanBuildType
    /\ \E n \in {newRegion(st, g)} :
         Built(newType(n.s, TRef(st.ty[st.refG.type].base, p, n.v)).s)

NewTypeTypeClass ==
  \E cs \in {<<1>>, <<2>>}, g \in RegionChoices :
    /\ CanBuildType
    /\ \E n \in {newRegion(st, g)} : Built(newType(n.s, TTypeClass(cs, n.v)).s)

\* ImplicitCastPattern c = unifyType(typeMap, type1, type2, implicitCast), the caller
\* holding the two handles
UnifyType ==
  \E a \in Usable(st), b \in Usable(st), implicitCast \in BOOLEAN :
    /\ st.err = ""
    /\ Operations < MaxOperations
    /\ \E u \in {unifyType(PushT(PushT(st, a), b), <<"loc", 1>>, <<"loc", 2>>, implicitCast)} :
         /\ st' = DropLocals(u.s)
         /\ last' = [Last("unifyType", a, b, implicitCast, u.s.err = "", u.v,
                          GetT(u.s, <<"loc", 1>>), GetT(u.s, <<"loc", 2>>), Mono(0), st)
                     EXCEPT !.err = u.s.err, !.n = last.n + 1, !.built = BuiltCount]
    /\ UNCHANGED <<expr, resJ, resM>>

\* a type of the first program: Base, Function and unconstrained Variable only
RECURSIVE PlainOn(_, _, _)
PlainOn(S, t, seen) ==
  IF t \in seen THEN TRUE
  ELSE CASE S.ty[t].kind = "Base" -> TRUE
         [] S.ty[t].kind = "Function" ->
              IF PlainOn(S, S.ty[t].p, seen \cup {t})
              THEN PlainOn(S, S.ty[t].r, seen \cup {t})
              ELSE FALSE
         [] S.ty[t].kind = "Variable" ->
              IF S.ty[t].cs # <<>> THEN FALSE
              ELSE IF S.ty[t].solve = 0 THEN TRUE
              ELSE PlainOn(S, S.ty[t].solve, seen \cup {t})
         [] OTHER -> FALSE

Plain(S, t) == PlainOn(S, t, {})

\* unify(type1, type2) of the first program
Unify ==
  \E a \in Usable(st), b \in Usable(st) :
    /\ st.err = ""
    /\ Operations < MaxOperations
    /\ \E fits \in {IF Plain(st, a) THEN Plain(st, b) ELSE FALSE} : fits
    /\ \E u \in {unify(st, a, b)} :
         /\ st' = u
         /\ last' = [Last("unify", a, b, FALSE, u.err = "", "NONE", a, b, Mono(0), st)
                     EXCEPT !.err = u.err, !.n = last.n + 1, !.built = BuiltCount]
    /\ UNCHANGED <<expr, resJ, resM>>

\* a type of the second program: no Ref in it
RECURSIVE NoRefOn(_, _, _)
NoRefOn(S, t, seen) ==
  IF t \in seen THEN TRUE
  ELSE CASE S.ty[t].kind = "Ref" -> FALSE
         [] S.ty[t].kind = "Function" ->
              IF NoRefOn(S, S.ty[t].p, seen \cup {t})
              THEN NoRefOn(S, S.ty[t].r, seen \cup {t})
              ELSE FALSE
         [] S.ty[t].kind = "Variable" ->
              IF S.ty[t].solve = 0 THEN TRUE
              ELSE NoRefOn(S, S.ty[t].solve, seen \cup {t})
         [] OTHER -> TRUE

NoRef(S, t) == NoRefOn(S, t, {})

\* unify(typeMap, type1, type2) of the second program
Unify2 ==
  \E a \in Usable(st), b \in Usable(st) :
    /\ st.err = ""
    /\ Operations < MaxOperations
    /\ \E fits \in {IF NoRef(st, a) THEN NoRef(st, b) ELSE FALSE} : fits
    /\ \E u \in {unify2(st, a, b)} :
         /\ st' = u
         /\ last' = [Last("unify2", a, b, FALSE, u.err = "", "NONE", a, b, Mono(0), st)
                     EXCEPT !.err = u.err, !.n = last.n + 1, !.built = BuiltCount]
    /\ UNCHANGED <<expr, resJ, resM>>

UnifyNext ==
  \/ NewTypeVariable
  \/ NewTypeFunction
  \/ NewTypeRef
  \/ NewTypeTypeClass
  \/ UnifyType
  \/ Unify
  \/ Unify2

SpecUnify == UnifyInit /\ [][UnifyNext]_vars

(***************************************************************************)
(* Properties of unifyType (SpecUnify)                                     *)
(***************************************************************************)
\* two regions are the same region: one node, two Temporaries or one environment
RegionEq(S, g1, g2) ==
  LET a == S.rg[RepR(S, g1)]
      b == S.rg[RepR(S, g2)]
  IN \/ RepR(S, g1) = RepR(S, g2)
     \/ a.kind = "Temporary" /\ b.kind = "Temporary"
     \/ a.kind = "Base" /\ b.kind = "Base" /\ a.env = b.env

ClassSet(list) == {list[k] : k \in 1..Len(list)}

\* solved(a) and solved(b) are structurally equal: same kinds, same nominal bases,
\* same class sets, same pointees and regions; a pair met again on the way down
\* (a cyclic type) is taken as equal
RECURSIVE StructEqOn(_, _, _, _)
StructEqOn(S, a, b, path) ==
  LET x == Rep(S, a)
      y == Rep(S, b)
      nx == S.ty[x]
      ny == S.ty[y]
      down == path \cup {<<x, y>>}
  IN \/ x = y
     \/ <<x, y>> \in path
     \/ /\ nx.kind = ny.kind
        /\ CASE nx.kind = "Base" -> nx.name = ny.name
             [] nx.kind = "Function" ->
                  /\ S.ty[nx.base].name = S.ty[ny.base].name
                  /\ StructEqOn(S, nx.p, ny.p, down)
                  /\ StructEqOn(S, nx.r, ny.r, down)
             [] nx.kind = "Ref" ->
                  /\ S.ty[nx.base].name = S.ty[ny.base].name
                  /\ StructEqOn(S, nx.p, ny.p, down)
                  /\ RegionEq(S, nx.region, ny.region)
             [] nx.kind = "TypeClass" ->
                  /\ ClassSet(nx.cs) = ClassSet(ny.cs)
                  /\ RegionEq(S, nx.region, ny.region)
             [] OTHER -> FALSE

StructEq(S, a, b) == StructEqOn(S, a, b, {})

\* alpha occurs in t: it is t or is reached from t through Function and Ref
\* children and solved Variables
RECURSIVE OccursOn(_, _, _, _)
OccursOn(S, alpha, t, seen) ==
  \/ t = alpha
  \/ /\ t \notin seen
     /\ CASE S.ty[t].kind = "Function" ->
               \/ OccursOn(S, alpha, S.ty[t].p, seen \cup {t})
               \/ OccursOn(S, alpha, S.ty[t].r, seen \cup {t})
          [] S.ty[t].kind = "Ref" -> OccursOn(S, alpha, S.ty[t].p, seen \cup {t})
          [] S.ty[t].kind = "Variable" ->
               S.ty[t].solve # 0 /\ OccursOn(S, alpha, S.ty[t].solve, seen \cup {t})
          [] OTHER -> FALSE

Occurs(S, alpha, t) == OccursOn(S, alpha, t, {})

\* a implements every class of list: its own class list has it or one derived from it
Implements(S, t, list) ==
  \A k \in 1..Len(list) : has(getTypeClassList(S, t, 0), list[k])

\* solved(a) and solved(b) are equal up to the classes: as StructEq, but a TypeClass
\* type on the left stands against any type on the right that implements its classes
RECURSIVE ClassEqOn(_, _, _, _)
ClassEqOn(S, a, b, path) ==
  LET x == Rep(S, a)
      y == Rep(S, b)
      nx == S.ty[x]
      ny == S.ty[y]
      down == path \cup {<<x, y>>}
  IN \/ x = y
     \/ <<x, y>> \in path
     \/ nx.kind = "TypeClass" /\ ny.kind # "Variable" /\ Implements(S, y, nx.cs)
     \/ /\ nx.kind = "Function" /\ ny.kind = "Function"
        /\ ClassEqOn(S, nx.p, ny.p, down)
        /\ ClassEqOn(S, nx.r, ny.r, down)

ClassEq(S, a, b) == ClassEqOn(S, a, b, {})

\* the last operation was a unification; the nodes its arguments resolved to
Unified == last.op \in {"unifyType", "unify", "unify2"}
UnifiedOk == Unified /\ last.ok
UniT1 == Rep(last.pre, last.a)
UniT2 == Rep(last.pre, last.b)

\* C1 as claimed: whenever unifyType(a, b, allowImplicit), or the unify of the
\* earlier programs, returns without raising, solved(a) and solved(b) are
\* structurally equal, also when the cast is TYPECLASS.
C1_AsClaimed == UnifiedOk => StructEq(st, last.a, last.b)

\* C1 amended: whenever unifyType(a, b, allowImplicit) returns without raising and
\* the cast it returns is not TYPECLASS, solved(a) and solved(b) are structurally
\* equal, and so they are after the unify of the first program; when the cast is
\* TYPECLASS (implicit casts allowed, both TypeClass types, their sorted class lists
\* different) the two types stay different nodes with their own class lists, every
\* class of a's list is one of b's or a base of one of b's, and the two regions
\* resolve to the same region; after the unify of the second program the two types
\* are equal up to the classes: a TypeClass type of a stands against a type of b
\* that implements its classes.
C1_Soundness ==
  UnifiedOk =>
    IF last.op = "unify2" THEN ClassEq(st, last.a, last.b)
    ELSE IF last.cast = "TYPECLASS"
    THEN /\ last.op = "unifyType"
         /\ last.flag
         /\ st.ty[UniT1].kind = "TypeClass" /\ st.ty[UniT2].kind = "TypeClass"
         /\ ClassSet(st.ty[UniT1].cs) # ClassSet(st.ty[UniT2].cs)
         /\ ClassSet(st.ty[UniT1].cs) = ClassSet(last.pre.ty[UniT1].cs)
         /\ ClassSet(st.ty[UniT2].cs) = ClassSet(last.pre.ty[UniT2].cs)
         /\ \A c \in ClassSet(st.ty[UniT1].cs) : has(st.ty[UniT2].cs, c)
         /\ RegionEq(st, st.ty[UniT1].region, st.ty[UniT2].region)
         /\ ~StructEq(st, last.a, last.b)
    ELSE StructEq(st, last.a, last.b)

\* unifyType returns the cast TYPECLASS for two TypeClass types of different classes
C1_Witness ==
  /\ UnifiedOk
  /\ last.op = "unifyType"
  /\ last.cast = "TYPECLASS"
  /\ ClassSet(st.ty[UniT1].cs) = {1}
  /\ ClassSet(st.ty[UniT2].cs) = {2}

\* two Function types that differed are made equal by unifyType
C1_FunctionsUnified ==
  /\ UnifiedOk
  /\ last.op = "unifyType"
  /\ last.pre.ty[UniT1].kind = "Function"
  /\ last.pre.ty[UniT2].kind = "Function"
  /\ ~StructEq(last.pre, last.a, last.b)
  /\ StructEq(st, last.a, last.b)

\* the unsolved Variable alpha is unified with the non-Variable type other
OccursCase(alpha, other) ==
  /\ Unified
  /\ last.pre.ty[alpha].kind = "Variable"
  /\ last.pre.ty[other].kind # "Variable"
  /\ Occurs(last.pre, alpha, other)

\* C2: unifying an unsolved Variable alpha (either argument position) with a
\* non-Variable type in which alpha occurs raises RecursiveUnification and leaves
\* alpha unsolved.
C2_OccursCheck ==
  Unified =>
    \A pair \in {<<UniT1, UniT2>>, <<UniT2, UniT1>>} :
      OccursCase(pair[1], pair[2]) =>
        /\ last.err = "RecursiveUnification"
        /\ st.ty[pair[1]].solve = 0

\* the last unification was given two distinct unsolved Variables
TwoVariables ==
  /\ Unified
  /\ UniT1 # UniT2
  /\ last.pre.ty[UniT1].kind = "Variable"
  /\ last.pre.ty[UniT2].kind = "Variable"

\* C26: unifying two distinct unsolved Variables (unifyType, and the unify of the
\* earlier programs) solves the one of greater depth to the one of smaller depth,
\* with equal depths the first argument to the second, never the shallower to
\* the deeper, in either argument order; the Variable solved to stays unsolved and
\* no operation changes the depth of a Variable.
C26_Direction ==
  /\ \A t \in 1..Len(last.pre.ty) : st.ty[t].depth = last.pre.ty[t].depth
  /\ TwoVariables =>
       /\ last.ok
       /\ IF last.pre.ty[UniT1].depth < last.pre.ty[UniT2].depth
          THEN st.ty[UniT2].solve = UniT1 /\ st.ty[UniT1].solve = 0
          ELSE st.ty[UniT1].solve = UniT2 /\ st.ty[UniT2].solve = 0
       /\ \A v \in {UniT1, UniT2} :
            st.ty[v].solve # 0 => st.ty[st.ty[v].solve].depth <= st.ty[v].depth

\* unifyType is given the shallower Variable first and solves the second to it
C26_Witness ==
  /\ TwoVariables
  /\ last.op = "unifyType"
  /\ last.pre.ty[UniT1].depth < last.pre.ty[UniT2].depth
  /\ st.ty[UniT2].solve = UniT1
  /\ st.ty[UniT1].solve = 0

(***************************************************************************)
(* SpecGen: types are built, a Variable may be unified, the type built     *)
(* last is generalized as Let does, the scheme is instantiated as          *)
(* Identifier does for every lookup, and a fresh Variable of the first     *)
(* instance is unified with a builtin type.                                *)
(***************************************************************************)
\* unifyType(typeMap, alpha, type, false) for a Variable alpha, before generalize
UnifyVariable ==
  \E a \in Usable(st), b \in Usable(st) :
    /\ st.err = ""
    /\ last.op = "none"
    /\ st.ty[a].kind = "Variable"
    /\ Operations < MaxOperations
    /\ \E u \in {unifyType(PushT(PushT(st, a), b), <<"loc", 1>>, <<"loc", 2>>, FALSE)} :
         /\ st' = DropLocals(u.s)
         /\ last' = [Last("unifyType", a, b, FALSE, u.s.err = "", u.v,
                          GetT(u.s, <<"loc", 1>>), GetT(u.s, <<"loc", 2>>), Mono(0), st)
                     EXCEPT !.err = u.s.err, !.n = last.n + 1, !.built = BuiltCount]
    /\ UNCHANGED <<expr, resJ, resM>>

\* the explicit params a Let may give: none, or the Param 'a of main()
Prefixes(env) == IF env = EnvRoot THEN {<<>>, <<st.clsSelf>>} ELSE {<<>>}

\* auto g = env.generalize(type, params), type being the type built last
Generalize ==
  \E env \in {EnvRoot, EnvA} :
    \E vals \in Prefixes(env) :
      /\ st.err = ""
      /\ last.op \in {"none", "unifyType"}
      /\ BuiltCount > 0
      /\ \E g \in {generalize(st, env, PreludeTypes + BuiltCount, vals)} :
           /\ st' = DropLocals(g.s)
           /\ last' = [Last("generalize", PreludeTypes + BuiltCount, env, FALSE,
                            g.s.err = "", "", g.v.type, Len(vals), g.v, st)
                       EXCEPT !.err = g.s.err, !.n = last.n + 1, !.built = BuiltCount]
      /\ UNCHANGED <<expr, resJ, resM>>

\* Identifier::J on the binding: a scheme is instantiated, a type is taken as it is
lookupInstance(S, env, sch) ==
  IF sch.gen THEN instantiate(S, env, sch, <<>>) ELSE [s |-> S, v |-> sch.type]

Instantiate ==
  /\ st.err = ""
  /\ \/ last.op = "generalize"
     \/ last.op = "instantiate" /\ Len(last.inst) < MaxInstances /\ last.sch.gen
  /\ \E i \in {lookupInstance(st, last.b, last.sch)} :
       /\ st' = DropLocals(i.s)
       /\ last' = [last EXCEPT !.op = "instantiate", !.ok = i.s.err = "", !.err = i.s.err,
                               !.h1 = i.v, !.n = @ + 1,
                               !.inst = Append(@, [type |-> i.v, mark |-> Len(st.ty),
                                                   rmark |-> Len(st.rg)])]
  /\ UNCHANGED <<expr, resJ, resM>>

\* the Variables instantiate made for the first instance
FreshOfFirst ==
  {v \in 1..Len(st.ty) : /\ v > last.inst[1].mark
                         /\ v <= last.inst[2].mark
                         /\ st.ty[v].kind = "Variable"}

\* unifyType(typeMap, v, b, false) for a fresh Variable v of the first instance
UnifyInstance ==
  /\ st.err = ""
  /\ last.op = "instantiate"
  /\ Len(last.inst) = MaxInstances
  /\ \E v \in FreshOfFirst, b \in {st.numberT, st.booleanT} :
       \E u \in {unifyType(PushT(PushT(st, v), b), <<"loc", 1>>, <<"loc", 2>>, FALSE)} :
         /\ st' = DropLocals(u.s)
         /\ last' = [last EXCEPT !.op = "unifyInstance", !.ok = u.s.err = "", !.err = u.s.err,
                                 !.h1 = v, !.h2 = b, !.n = @ + 1, !.pre = st]
  /\ UNCHANGED <<expr, resJ, resM>>

GenNext ==
  \/ NewTypeVariable
  \/ NewTypeFunction
  \/ NewTypeRef
  \/ NewTypeTypeClass
  \/ UnifyVariable
  \/ Generalize
  \/ Instantiate
  \/ UnifyInstance

SpecGen == UnifyInit /\ [][GenNext]_vars

(***************************************************************************)
(* Properties of generalize and instantiate (SpecGen)                      *)
(***************************************************************************)
Range(f) == {f[i] : i \in 1..Len(f)}

\* the unsolved Variables deeper than d that the walk of generalize meets from t,
\* in order of first appearance: a Function's parameter before its return, a Ref's
\* pointee, a solved Variable's solution
RECURSIVE FreeWalk(_, _, _, _, _)
FreeWalk(S, t, d, acc, path) ==
  LET x == S.ty[t]
  IN IF t \in path THEN acc
     ELSE CASE x.kind = "Function" ->
                 FreeWalk(S, x.r, d, FreeWalk(S, x.p, d, acc, path \cup {t}), path \cup {t})
            [] x.kind = "Ref" -> FreeWalk(S, x.p, d, acc, path \cup {t})
            [] x.kind = "Variable" ->
                 IF x.solve # 0 THEN FreeWalk(S, x.solve, d, acc, path \cup {t})
                 ELSE IF x.depth > d /\ t \notin Range(acc) THEN Append(acc, t)
                 ELSE acc
            [] OTHER -> acc

\* the same for the unsolved region Variables deeper than d: the region of a
\* TypeClass, the region of a Ref after its pointee
RECURSIVE FreeRegionWalk(_, _, _, _, _)
FreeRegionWalk(S, t, d, acc, path) ==
  LET x == S.ty[t]
      g == RepR(S, x.region)
      here == IF S.rg[g].kind = "Variable" /\ S.rg[g].depth > d /\ g \notin Range(acc)
              THEN Append(acc, g) ELSE acc
  IN IF t \in path THEN acc
     ELSE CASE x.kind = "Function" ->
                 FreeRegionWalk(S, x.r, d, FreeRegionWalk(S, x.p, d, acc, path \cup {t}),
                                path \cup {t})
            [] x.kind = "Ref" ->
                 LET in == FreeRegionWalk(S, x.p, d, acc, path \cup {t})
                 IN IF S.rg[g].kind = "Variable" /\ S.rg[g].depth > d /\ g \notin Range(in)
                    THEN Append(in, g) ELSE in
            [] x.kind = "Variable" ->
                 IF x.solve # 0 THEN FreeRegionWalk(S, x.solve, d, acc, path \cup {t}) ELSE acc
            [] x.kind = "TypeClass" -> here
            [] OTHER -> acc

\* the last operation was a generalize that returned
Generalized == last.op = "generalize" /\ last.err = ""
GenDepth == last.pre.env[last.b].depth
GenFree == FreeWalk(last.pre, last.a, GenDepth, <<>>, {})
GenFreeRegions == FreeRegionWalk(last.pre, last.a, GenDepth, <<>>, {})

\* generalize selects the free Variables and orders the Params
GenSelection ==
  /\ Len(last.sch.vals) = IF last.sch.gen THEN last.h2 + Len(GenFree) ELSE 0
  /\ last.sch.gen => \A i \in 1..last.h2 : last.sch.vals[i] = st.clsSelf
  /\ last.sch.gen \/ (last.h2 = 0 /\ GenFree = <<>>)
  /\ \A i \in 1..Len(GenFree) :
       LET q == last.sch.vals[last.h2 + i]
       IN /\ q > Len(last.pre.ty)
          /\ st.ty[q].kind = "Param"
          /\ st.ty[q].index = last.h2 + i - 1
          /\ st.ty[q].cs = last.pre.ty[GenFree[i]].cs
          /\ st.ty[GenFree[i]].solve = q
  /\ \A v \in 1..Len(last.pre.ty) :
       (last.pre.ty[v].kind = "Variable" /\ last.pre.ty[v].solve = 0 /\ v \notin Range(GenFree))
         => st.ty[v] = last.pre.ty[v]
  /\ FreeWalk(st, last.sch.type, GenDepth, <<>>, {}) = <<>>
  /\ Len(last.sch.rvals) = IF last.sch.gen THEN Len(GenFreeRegions) ELSE 0
  /\ last.sch.gen \/ GenFreeRegions = <<>>
  /\ \A i \in 1..Len(GenFreeRegions) :
       LET q == last.sch.rvals[i]
       IN /\ q > Len(last.pre.rg)
          /\ st.rg[q].kind = "Param"
          /\ st.rg[q].index = i - 1
          /\ st.rg[GenFreeRegions[i]].solve = q
  /\ ~last.sch.gen => last.sch.type = Rep(last.pre, last.a)

\* C7 as claimed: generalize turns into Params exactly the free Variables, in order
\* of first appearance after the prefix, and returns the original type instead of
\* a scheme when no type or region Param is collected on the walk.
C7_AsClaimed ==
  Generalized =>
    /\ GenSelection
    /\ last.sch.gen <=> (Len(GenFree) > 0 \/ Len(GenFreeRegions) > 0)

\* C7 amended: env.generalize(type, prefix) turns into Params exactly the unsolved
\* Variables reachable from type whose depth is greater than env.depth and leaves
\* the other unsolved Variables untouched; the Variable is solved to its Param, so
\* every occurrence maps to the same Param; the new Params are appended to vals
\* after the explicit prefix in order of first appearance, each with index equal to
\* its position in vals and with the Variable's constraints, and the free region
\* Variables become region Params in the same way; the original type is returned
\* instead of a scheme only when vals, the explicit prefix included, and regionVals
\* are both empty: with a non-empty prefix a scheme is returned even when the walk
\* collects nothing.
C7_GeneralizeSelection ==
  Generalized =>
    /\ GenSelection
    /\ last.sch.gen <=> (Len(last.sch.vals) > 0 \/ Len(last.sch.rvals) > 0)
    /\ last.sch.gen <=> (last.h2 > 0 \/ Len(GenFree) > 0 \/ Len(GenFreeRegions) > 0)

\* a type with two free Variables, one of them constrained, is generalized after a prefix
C7_Witness ==
  /\ Generalized
  /\ last.h2 = 1
  /\ Len(GenFree) = 2
  /\ \E i \in 1..2 : last.pre.ty[GenFree[i]].cs # <<>>
  /\ Len(last.sch.vals) = 3

\* t of the state P against r of the state S: the pairs of a bound node of t and the
\* node of r in its place; the bound nodes are bt (types) and br (regions); a place
\* where the two differ otherwise gives the pair "fail"
MatchRegion(P, g, S, h, br) ==
  LET a == RepR(P, g)
      b == RepR(S, h)
  IN IF a \in br THEN {<<"r", a, b>>}
     ELSE IF \/ a = b
             \/ P.rg[a].kind = "Temporary" /\ S.rg[b].kind = "Temporary"
             \/ P.rg[a].kind = "Base" /\ S.rg[b].kind = "Base" /\ P.rg[a].env = S.rg[b].env
          THEN {}
          ELSE {<<"fail", 0, 0>>}

RECURSIVE MatchOn(_, _, _, _, _, _, _)
MatchOn(P, t, S, r, bt, br, path) ==
  LET x == Rep(P, t)
      y == Rep(S, r)
      nx == P.ty[x]
      ny == S.ty[y]
      down == path \cup {<<x, y>>}
  IN IF <<x, y>> \in path THEN {}
     ELSE IF x \in bt THEN {<<"t", x, y>>}
     ELSE IF nx.kind # ny.kind THEN {<<"fail", 0, 0>>}
     ELSE CASE nx.kind = "Base" -> IF nx.name = ny.name THEN {} ELSE {<<"fail", 0, 0>>}
            [] nx.kind = "Function" ->
                 IF P.ty[nx.base].name # S.ty[ny.base].name THEN {<<"fail", 0, 0>>}
                 ELSE MatchOn(P, nx.p, S, ny.p, bt, br, down)
                        \cup MatchOn(P, nx.r, S, ny.r, bt, br, down)
            [] nx.kind = "Ref" ->
                 IF P.ty[nx.base].name # S.ty[ny.base].name THEN {<<"fail", 0, 0>>}
                 ELSE MatchOn(P, nx.p, S, ny.p, bt, br, down)
                        \cup MatchRegion(P, nx.region, S, ny.region, br)
            [] nx.kind = "TypeClass" ->
                 IF ClassSet(nx.cs) # ClassSet(ny.cs) THEN {<<"fail", 0, 0>>}
                 ELSE MatchRegion(P, nx.region, S, ny.region, br)
            [] OTHER -> IF x = y THEN {} ELSE {<<"fail", 0, 0>>}

\* the pairs send one bound node to one node and two bound nodes to two nodes
OneToOne(m) ==
  \A a \in m, b \in m : a[1] = b[1] => (a[2] = b[2] <=> a[3] = b[3])

\* the unsolved Variables, and region Variables, of S deeper than d
FreeTypes(S, d) ==
  {v \in 1..Len(S.ty) : S.ty[v].kind = "Variable" /\ S.ty[v].solve = 0 /\ S.ty[v].depth > d}
FreeRegions(S, d) ==
  {g \in 1..Len(S.rg) : S.rg[g].kind = "Variable" /\ S.rg[g].solve = 0 /\ S.rg[g].depth > d}

\* an instance was made of the scheme generalize(t) gave without a prefix
Instantiated == last.op = "instantiate" /\ last.err = "" /\ last.h2 = 0

\* the type t against the instance i of generalize(t)
RoundTrip(i) ==
  MatchOn(last.pre, last.a, st, last.inst[i].type,
          FreeTypes(last.pre, GenDepth), FreeRegions(last.pre, GenDepth), {})

\* C8: instantiate(generalize(t), []) is structurally equal to t when t contains no
\* free Variable, and otherwise equals t with each free Variable (type or region)
\* replaced consistently by a fresh unsolved Variable, the constraints preserved;
\* a generalize that returned the type itself leaves nothing to instantiate.
C8_RoundTrip ==
  Instantiated =>
    \A i \in 1..Len(last.inst) :
      /\ <<"fail", 0, 0>> \notin RoundTrip(i)
      /\ OneToOne(RoundTrip(i))
      /\ \A m \in RoundTrip(i) :
           IF m[1] = "t"
           THEN /\ m[3] > last.inst[i].mark
                /\ st.ty[m[3]].kind = "Variable"
                /\ st.ty[m[3]].solve = 0
                /\ st.ty[m[3]].cs = last.pre.ty[m[2]].cs
           ELSE /\ m[3] > last.inst[i].rmark
                /\ st.rg[m[3]].kind = "Variable"
                /\ st.rg[m[3]].solve = 0
      /\ (GenFree = <<>> /\ GenFreeRegions = <<>>) =>
           (RoundTrip(i) = {} /\ Rep(st, last.inst[i].type) = Rep(last.pre, last.a))

\* a Function over one constrained free Variable twice comes back over one fresh Variable
C8_Witness ==
  /\ Instantiated
  /\ last.pre.ty[Rep(last.pre, last.a)].kind = "Function"
  /\ Len(GenFree) = 1
  /\ last.pre.ty[GenFree[1]].cs # <<>>
  /\ Cardinality(RoundTrip(1)) = 1
  /\ st.ty[last.inst[1].type].p = st.ty[last.inst[1].type].r

\* the instance i against the body of the scheme
InstanceOf(S, i) ==
  MatchOn(S, last.sch.type, S, last.inst[i].type, Range(last.sch.vals), Range(last.sch.rvals), {})

\* the nodes reached from t: children, pointees and solutions
RECURSIVE ReachOn(_, _, _)
ReachOn(S, t, seen) ==
  LET x == S.ty[t]
  IN IF t \in seen THEN seen
     ELSE CASE x.kind = "Function" -> ReachOn(S, x.r, ReachOn(S, x.p, seen \cup {t}))
            [] x.kind = "Ref" -> ReachOn(S, x.p, seen \cup {t})
            [] x.kind = "Variable" ->
                 IF x.solve # 0 THEN ReachOn(S, x.solve, seen \cup {t}) ELSE seen \cup {t}
            [] OTHER -> seen \cup {t}

Reach(S, t) == ReachOn(S, t, {})

\* C4: every lookup of a scheme-bound name gives an instance in which each bound
\* Param is replaced by a Variable fresh for that lookup, the same Param by the same
\* Variable; unifying a fresh Variable of one instance changes neither the scheme
\* nor the other instance.
C4_LetPolymorphism ==
  /\ (last.op = "instantiate" /\ last.err = "" /\ last.sch.gen) =>
       /\ \A i \in 1..Len(last.inst) :
            /\ <<"fail", 0, 0>> \notin InstanceOf(st, i)
            /\ OneToOne(InstanceOf(st, i))
            /\ \A m \in InstanceOf(st, i) :
                 IF m[1] = "t"
                 THEN /\ m[3] > last.inst[i].mark
                      /\ st.ty[m[3]].kind = "Variable"
                      /\ st.ty[m[3]].solve = 0
                 ELSE /\ m[3] > last.inst[i].rmark
                      /\ st.rg[m[3]].kind = "Variable"
            /\ \A j \in 1..Len(last.inst) :
                 i # j => \A m \in InstanceOf(st, i), k \in InstanceOf(st, j) :
                            m[1] = k[1] => m[3] # k[3]
  /\ (last.op = "unifyInstance" /\ last.err = "") =>
       /\ Rep(st, last.h1) = last.h2
       /\ \A n \in Reach(last.pre, last.sch.type) \cup Reach(last.pre, last.inst[2].type) :
            st.ty[n] = last.pre.ty[n]
       /\ \A n \in Range(last.sch.vals) : st.ty[n] = last.pre.ty[n]
       /\ InstanceOf(st, 2) = InstanceOf(last.pre, 2)
       /\ st.rg = last.pre.rg

\* two instances of a scheme over a free Variable, the Variable of the first solved
\* to number, the second still over its own unsolved Variable
C4_Witness ==
  /\ last.op = "unifyInstance"
  /\ last.err = ""
  /\ last.h2 = st.numberT
  /\ st.ty[Rep(st, last.inst[1].type)].kind = "Function"
  /\ Rep(st, st.ty[Rep(st, last.inst[1].type)].p) = st.numberT
  /\ st.ty[Rep(st, st.ty[Rep(st, last.inst[2].type)].p)].kind = "Variable"

(***************************************************************************)
(* The expressions (struct Expression and its seven kinds) and main()'s    *)
(* helpers that build them.  An expression is a tuple headed by the name   *)
(* of its struct; Let and Letrec are built without explicit params.        *)
(***************************************************************************)
Constant(b) == <<"Constant", b>>
Identifier(x) == <<"Identifier", x>>
Lambda(x, constraint, e) == <<"Lambda", x, constraint, e>>
Apply(e1, e2) == <<"Apply", e1, e2>>
Let(x, e1, e2) == <<"Let", x, e1, e2>>
Letrec(x, e1, e2) == <<"Letrec", x, e1, e2>>
AccessToClassMethod(e, x) == <<"AccessToClassMethod", e, x>>

\* the annotations main() writes on a lambda: none, number, tc(env, TypeClass) and
\* ref(typeMap, env, var(env)), all made in the root environment
Constraints == {"", "number", "tc", "ref"}

constraintOf(S, a) ==
  CASE a = "" -> [s |-> S, v |-> 0]
    [] a = "number" -> [s |-> S, v |-> S.numberT]
    [] a = "tc" -> tc(S, EnvRoot, <<1>>)
    [] OTHER -> Do([v \in {var(S, EnvRoot)} |-> ref(v.s, EnvRoot, v.v)])

\* the expression is built before it is inferred: c(numberT) and c(booleanT) hold
\* the Base node, a lambda its constraint node (0 for std::nullopt)
RECURSIVE Build(_, _)
Build(S, e) ==
  CASE e[1] = "Constant" ->
         [s |-> S, v |-> Constant(IF e[2] = "number" THEN S.numberT ELSE S.booleanT)]
    [] e[1] = "Identifier" -> [s |-> S, v |-> e]
    [] e[1] = "Lambda" ->
         Do([c \in {constraintOf(S, e[3])} |->
         Do([b \in {Build(c.s, e[4])} |-> [s |-> b.s, v |-> Lambda(e[2], c.v, b.v)]])])
    [] e[1] = "Apply" ->
         Do([a \in {Build(S, e[2])} |->
         Do([b \in {Build(a.s, e[3])} |-> [s |-> b.s, v |-> Apply(a.v, b.v)]])])
    [] e[1] = "AccessToClassMethod" ->
         Do([a \in {Build(S, e[2])} |-> [s |-> a.s, v |-> AccessToClassMethod(a.v, e[3])]])
    [] OTHER ->
         Do([a \in {Build(S, e[3])} |->
         Do([b \in {Build(a.s, e[4])} |-> [s |-> b.s, v |-> <<e[1], e[2], a.v, b.v>>]])])

(***************************************************************************)
(* TypeEnvironment::lookup and include, the two checkDangling              *)
(***************************************************************************)
RECURSIVE lookup(_, _, _)
lookup(S, env, name) ==
  IF S.env[env].map[name] # 0 THEN S.env[env].map[name]
  ELSE IF S.env[env].depth # 0 /\ S.env[env].parent # 0
  THEN lookup(S, S.env[env].parent, name)
  ELSE 0

\* the region is solved on its handle; the environment of a Base region that is
\* gone is a dangling pointer
include(S, env, l) ==
  Do([S2 \in {solveR(S, l)} |->
    LET region == GetR(S2, l)
        r1env == S2.rg[region].env
    IN IF S2.err # "" THEN [s |-> S2, v |-> FALSE]
       ELSE IF S2.rg[region].kind = "Temporary" THEN [s |-> S2, v |-> TRUE]
       ELSE IF S2.rg[region].kind = "Base"
       THEN IF ~S2.env[r1env].live THEN [s |-> Raise(S2, "DanglingEnvPointer"), v |-> FALSE]
            ELSE IF S2.env[r1env].depth > S2.env[env].depth THEN [s |-> S2, v |-> FALSE]
            ELSE [s |-> S2, v |-> r1env = WalkUp(S2, env, S2.env[r1env].depth)]
       ELSE [s |-> S2, v |-> FALSE]])

\* Lambda::checkDangling(env, type)
LambdaCheckDangling(S, env, type) ==
  Do([S2 \in {solveT(S, <<"ti", type>>)} |->
    IF S2.ty[S2.ti[type].type].kind = "Ref"
    THEN include(S2, env, <<"ty", S2.ti[type].type>>)
    ELSE [s |-> S2, v |-> FALSE]])

\* Let::checkDangling(type)
LetCheckDangling(S, type) ==
  Do([S2 \in {solveT(S, <<"ti", type>>)} |->
    IF S2.ty[S2.ti[type].type].kind = "Ref"
    THEN Do([g \in {solvedRegion(S2, S2.ty[S2.ti[type].type].region)} |->
           [s |-> g.s, v |-> g.s.err = "" /\ g.s.rg[g.v].kind = "Temporary"]])
    ELSE [s |-> S2, v |-> FALSE]])

(***************************************************************************)
(* Constraints::getClassMethod and TypeClass::getInstantiatedMethod        *)
(***************************************************************************)
\* the loop over j: a second class with the method, unrelated to the first one
\* found, makes the method ambiguous (ok is FALSE)
RECURSIVE classMethodRest(_, _, _, _, _)
classMethodRest(list, name, typeClass, index, j) ==
  IF j > Len(list) THEN [cls |-> typeClass, index |-> index, ok |-> TRUE]
  ELSE IF typeClass = list[j] THEN classMethodRest(list, name, typeClass, j - 1, j + 1)
  ELSE IF ~derived(typeClass, list[j]) /\ name \in ClassTable[list[j]].methods
  THEN IF derived(list[j], typeClass)
       THEN [cls |-> list[j], index |-> j - 1, ok |-> TRUE]
       ELSE [cls |-> 0, index |-> 0, ok |-> FALSE]
  ELSE classMethodRest(list, name, typeClass, index, j + 1)

\* the loop over i, from position i on; cls is 0 for std::nullopt
RECURSIVE classMethodFrom(_, _, _)
classMethodFrom(list, name, i) ==
  IF i > Len(list) THEN [cls |-> 0, index |-> Len(list), ok |-> TRUE]
  ELSE Do([f \in {IF name \in ClassTable[list[i]].methods
                  THEN [cls |-> list[i], index |-> i - 1, ok |-> TRUE]
                  ELSE [classMethodFrom(ClassTable[list[i]].bases, name, 1)
                          EXCEPT !.index = Len(list)]} |->
         IF ~f.ok THEN f
         ELSE IF f.cls # 0 THEN classMethodRest(list, name, f.cls, f.index, i + 1)
         ELSE classMethodFrom(list, name, i + 1)])

getClassMethod(list, name) == classMethodFrom(list, name, 1)

\* the method of main()'s class is the plain type 'a -> 'a -> 'a over the class's
\* own Param; the result is the state and the return type of the instance
getInstantiatedMethod(S, env, methodName, type) ==
  Do([f \in {instantiate(S, env, Generic(<<S.clsSelf>>, <<>>, S.clsMethod), <<>>)} |->
    IF f.s.err # "" THEN [s |-> f.s, v |-> 0]
    ELSE Do([u \in {unifyWithRef(f.s, <<"p", f.v>>, type)} |->
           [s |-> u.s, v |-> u.s.ty[f.v].r]])])

(***************************************************************************)
(* J and M.  J gives the state and the TypeInfo (0 after an exception), M  *)
(* the state.  The state's log is a history of the dangling checks made:   *)
(* the kind of expression, the environment, the TypeInfo checked (body),   *)
(* the TypeInfo that holds the function type or is bound to the name       *)
(* (type), whether the check raised, and the state at that point.  The     *)
(* entry "LetrecGeneralize" is the point where Letrec calls generalize,    *)
(* body being the TypeInfo bound to the name and type the TypeInfo whose   *)
(* type is generalized.                                                    *)
(***************************************************************************)
Failed(S) == [s |-> S, v |-> 0]

Logged(S, op, env, body, type, raised) ==
  [S EXCEPT !.log = Append(@, [op |-> op, env |-> env, body |-> body, type |-> type,
                               raised |-> raised, name |-> "",
                               s |-> [S EXCEPT !.log = <<>>]])]

\* the history of the names defined: a Let is entered ("LetIn"), or the map of env is
\* asked for x by a Let ("LetDefine") or a Letrec ("LetrecDefine"), or J / M is
\* called on e1 ("LetE1", "LetrecE1") or on e2 ("LetE2", "LetrecE2") of a Let or
\* Letrec of x; body is the TypeInfo x is bound to in the map of env itself, 0
\* for none
Entered(S, op, env, x) ==
  [S EXCEPT !.log = Append(@, [op |-> op, env |-> env, body |-> S.env[env].map[x], type |-> 0,
                               raised |-> S.env[env].map[x] # 0, name |-> x,
                               s |-> [S EXCEPT !.log = <<>>]])]

\* the local TypeEnvironment newEnv of Lambda::J / M goes out of scope
Leave(S, scope) == [S EXCEPT !.env[scope].live = FALSE]

\* env.newTypeInfo(env.newType(node), env.newRegion(region))
newInfoOf(S, node, region) ==
  Do([t \in {newType(S, node)} |->
  Do([g \in {newRegion(t.s, region)} |-> newTypeInfo(g.s, Mono(t.v), g.v)])])

\* env.newTypeInfo(type, env.newRegion(region))
newInfoAt(S, type, region) ==
  Do([g \in {newRegion(S, region)} |-> newTypeInfo(g.s, Mono(type), g.v)])

\* rho->region->kind = Region::Temporary{}
setTemporary(S, rho) == [S EXCEPT !.rg[S.ti[rho].region] = RTemporary]

\* env.map.insert({x, typeInfo})
insert(S, env, x, typeInfo) == [S EXCEPT !.env[env].map[x] = typeInfo]

RECURSIVE J(_, _, _)
RECURSIVE M(_, _, _, _)

ConstantJ(S, env, e) == newInfoAt(S, e[2], RTemporary)

ConstantM(S, env, e, rho) ==
  Do([b \in {newInfoAt(S, e[2], RTemporary)} |->
  Do([u \in {unifyWithRef(b.s, <<"ti", rho>>, b.v)} |->
    IF u.s.err # "" THEN u.s ELSE setTemporary(u.s, rho)])])

\* the instance of the Generic bound to a name, as a Temporary TypeInfo
instanceInfo(S, env, tau) ==
  Do([i \in {instantiate(S, env, S.ti[tau], <<>>)} |->
    IF i.s.err # "" THEN Failed(i.s) ELSE newInfoAt(i.s, i.v, RTemporary)])

IdentifierJ(S, env, e) ==
  Do([tau \in {lookup(S, env, e[2])} |->
    IF tau = 0 THEN Failed(Raise(S, "UnknownIdentifier"))
    ELSE IF ~S.ti[tau].gen THEN [s |-> S, v |-> tau]
    ELSE instanceInfo(S, env, tau)])

IdentifierM(S, env, e, rho) ==
  Do([tau \in {lookup(S, env, e[2])} |->
    IF tau = 0 THEN Raise(S, "UnknownIdentifier")
    ELSE IF ~S.ti[tau].gen
    THEN Do([u \in {unifyWithRef(S, <<"ti", rho>>, tau)} |->
           IF u.s.err # "" THEN u.s
           ELSE IF u.v = "NONE" THEN [u.s EXCEPT !.ti[rho].region = u.s.ti[tau].region]
           ELSE setTemporary(u.s, rho)])
    ELSE Do([b \in {instanceInfo(S, env, tau)} |->
           IF b.s.err # "" THEN b.s
           ELSE Do([u \in {unifyWithRef(b.s, <<"ti", rho>>, b.v)} |->
                  IF u.s.err # "" THEN u.s ELSE setTemporary(u.s, rho)])])])

\* the TypeInfo of the parameter: the constraint, or a Variable of the new depth
paramInfo(S, scope, constraint) ==
  IF constraint # 0 THEN newInfoAt(S, constraint, RBase(scope))
  ELSE newInfoOf(S, TVariable(<<>>, S.env[scope].depth), RBase(scope))

\* Lambda::J from the instantiate of builtin.fn on
LambdaJReturn(S, env, scope, t, tau) ==
  Do([f \in {instantiate(S, env, S.fnG, <<S.ti[t].type, S.ti[tau].type>>)} |->
    IF f.s.err # "" THEN Failed(Leave(f.s, scope))
    ELSE Do([ret \in {newInfoAt(f.s, f.v, RTemporary)} |->
         Do([d \in {LambdaCheckDangling(ret.s, scope, ret.v)} |->
           IF d.s.err # "" THEN Failed(Leave(d.s, scope))
           ELSE IF d.v
           THEN Failed(Leave(Raise(Logged(d.s, "Lambda", scope, tau, ret.v, TRUE), "Dangling"), scope))
           ELSE [s |-> Leave(Logged(d.s, "Lambda", scope, tau, ret.v, FALSE), scope),
                 v |-> ret.v]])])])

LambdaJ(S, env, e) ==
  Do([E \in {newEnv(S, env)} |->
  Do([t \in {paramInfo(E.s, E.v, e[3])} |->
  Do([tau \in {J(insert(t.s, E.v, e[2], t.v), E.v, e[4])} |->
    IF tau.s.err # "" THEN Failed(Leave(tau.s, E.v))
    ELSE LambdaJReturn(tau.s, env, E.v, t.v, tau.v)])])])

\* Lambda::M from the evaluation of the body on
LambdaMBody(S, scope, e, rho, t1, t2) ==
  Do([m \in {M(insert(S, scope, e[2], t1), scope, e[4], t2)} |->
    IF m.err # "" THEN Leave(m, scope)
    ELSE Do([d \in {LambdaCheckDangling(m, scope, t2)} |->
           IF d.s.err # "" THEN Leave(d.s, scope)
           ELSE IF d.v
           THEN Leave(Raise(Logged(d.s, "Lambda", scope, t2, rho, TRUE), "Dangling"), scope)
           ELSE Leave(Logged(d.s, "Lambda", scope, t2, rho, FALSE), scope)])])

LambdaM(S, env, e, rho) ==
  Do([E \in {newEnv(S, env)} |->
  Do([t1 \in {paramInfo(E.s, E.v, e[3])} |->
  Do([t2 \in {newInfoOf(t1.s, TVariable(<<>>, t1.s.env[E.v].depth),
                        RVariable(t1.s.env[E.v].depth))} |->
  Do([u \in {unifyFunction(t2.s, env, t2.s.ti[rho].type, t1.v, t2.v)} |->
    IF u.s.err # "" THEN Leave(u.s, E.v)
    ELSE LambdaMBody(u.s, E.v, e, rho, t1.v, t2.v)])])])])

ApplyJ(S, env, e) ==
  Do([tau1 \in {J(S, env, e[2])} |->
    IF tau1.s.err # "" THEN tau1
    ELSE Do([tau2 \in {J(tau1.s, env, e[3])} |->
           IF tau2.s.err # "" THEN tau2
           ELSE Do([t \in {newInfoOf(tau2.s, TVariable(<<>>, tau2.s.env[env].depth), RTemporary)} |->
                Do([u \in {unifyFunction(t.s, env, t.s.ti[tau1.v].type, tau2.v, t.v)} |->
                  IF u.s.err # "" THEN Failed(u.s) ELSE [s |-> u.s, v |-> t.v]])])])])

ApplyM(S, env, e, rho) ==
  Do([t \in {newInfoOf(S, TVariable(<<>>, S.env[env].depth), RBase(env))} |->
  Do([f \in {instantiate(t.s, env, t.s.fnG, <<t.s.ti[t.v].type, t.s.ti[rho].type>>)} |->
    IF f.s.err # "" THEN f.s
    ELSE Do([fi \in {newInfoAt(f.s, f.v, RBase(env))} |->
         Do([m \in {M(fi.s, env, e[2], fi.v)} |->
           IF m.err # "" THEN m ELSE M(m, env, e[3], t.v)])])])])

\* mutant of LetBind: a name the map binds is bound again
LetBindAgain(S, env, e, tau1) ==
  Do([d \in {LetCheckDangling(S, tau1)} |->
    IF d.s.err # "" THEN d.s
    ELSE IF d.v THEN Raise(Logged(d.s, "Let", env, tau1, 0, TRUE), "Dangling")
    ELSE Do([g \in {generalize(Entered(d.s, "LetDefine", env, e[2]), env,
                                d.s.ti[tau1].type, <<>>)} |->
           IF g.s.err # "" THEN g.s
           ELSE Do([region \in {newRegion(g.s, RBase(env))} |->
                Do([typeInfo \in {newTypeInfo(region.s, g.v, region.v)} |->
                  Logged(insert(typeInfo.s, env, e[2], typeInfo.v),
                         "Let", env, tau1, typeInfo.v, FALSE)])])])])

\* Let::J and Let::M from the check of the bound type on: tau1 is the TypeInfo of e1
LetBind(S, env, e, tau1) ==
  Do([d \in {LetCheckDangling(S, tau1)} |->
    IF d.s.err # "" THEN d.s
    ELSE IF d.v THEN Raise(Logged(d.s, "Let", env, tau1, 0, TRUE), "Dangling")
    ELSE IF d.s.env[env].map[e[2]] # 0
    THEN Raise(Entered(d.s, "LetDefine", env, e[2]), "Redefined")
    ELSE Do([g \in {generalize(Entered(d.s, "LetDefine", env, e[2]), env,
                                d.s.ti[tau1].type, <<>>)} |->
           IF g.s.err # "" THEN g.s
           ELSE Do([region \in {newRegion(g.s, RBase(env))} |->
                Do([typeInfo \in {newTypeInfo(region.s, g.v, region.v)} |->
                  Logged(insert(typeInfo.s, env, e[2], typeInfo.v),
                         "Let", env, tau1, typeInfo.v, FALSE)])])])])

LetJ(S, env, e) ==
  Do([tau1 \in {J(Entered(Entered(S, "LetIn", env, e[2]), "LetE1", env, e[2]), env, e[3])} |->
    IF tau1.s.err # "" THEN tau1
    ELSE Do([b \in {LetBind(tau1.s, env, e, tau1.v)} |->
           IF b.err # "" THEN Failed(b) ELSE J(Entered(b, "LetE2", env, e[2]), env, e[4])])])

LetM(S, env, e, rho) ==
  Do([t \in {newInfoOf(Entered(S, "LetIn", env, e[2]), TVariable(<<>>, S.env[env].depth),
                        RBase(env))} |->
  Do([m \in {M(Entered(t.s, "LetE1", env, e[2]), env, e[3], t.v)} |->
    IF m.err # "" THEN m
    ELSE Do([b \in {LetBind(m, env, e, t.v)} |->
           IF b.err # "" THEN b ELSE M(Entered(b, "LetE2", env, e[2]), env, e[4], rho)])])])

\* Letrec::J and Letrec::M from the unifyType on: t is bound to the name, tau1 is
\* the TypeInfo of e1 and from is the TypeInfo whose type is generalized
LetrecBind(S, env, t, tau1, from) ==
  Do([u \in {unifyType(S, <<"ti", t>>, <<"ti", tau1>>, TRUE)} |->
    IF u.s.err # "" THEN u.s
    ELSE Do([d \in {LetCheckDangling(u.s, t)} |->
           IF d.s.err # "" THEN d.s
           ELSE IF d.v THEN Raise(Logged(d.s, "Letrec", env, t, 0, TRUE), "Dangling")
           ELSE Do([g \in {generalize(Logged(d.s, "LetrecGeneralize", env, t, from, FALSE), env,
                                       d.s.ti[from].type, <<>>)} |->
                  IF g.s.err # "" THEN g.s
                  ELSE Logged([g.s EXCEPT !.ti[t] = TypeInfo(g.v.gen, g.v.type, g.v.vals,
                                                             g.v.rvals, @.region)],
                              "Letrec", env, t, t, FALSE)])])])

\* mutant of LetrecJ: the name is put in the map after e1 has been inferred
LetrecJLate(S, env, e) ==
  IF S.env[env].map[e[2]] # 0
  THEN Failed(Raise(Entered(S, "LetrecDefine", env, e[2]), "Redefined"))
  ELSE Do([t \in {newInfoOf(Entered(S, "LetrecDefine", env, e[2]),
                             TVariable(<<>>, S.env[env].depth), RBase(env))} |->
       Do([tau1 \in {J(Entered(t.s, "LetrecE1", env, e[2]), env, e[3])} |->
         IF tau1.s.err # "" THEN tau1
         ELSE Do([b \in {LetrecBind(insert(tau1.s, env, e[2], t.v), env, t.v, tau1.v, tau1.v)} |->
                IF b.err # "" THEN Failed(b)
                ELSE J(Entered(b, "LetrecE2", env, e[2]), env, e[4])])])])

LetrecJ(S, env, e) ==
  IF S.env[env].map[e[2]] # 0
  THEN Failed(Raise(Entered(S, "LetrecDefine", env, e[2]), "Redefined"))
  ELSE Do([t \in {newInfoOf(Entered(S, "LetrecDefine", env, e[2]),
                             TVariable(<<>>, S.env[env].depth), RBase(env))} |->
       Do([tau1 \in {J(Entered(insert(t.s, env, e[2], t.v), "LetrecE1", env, e[2]), env, e[3])} |->
         IF tau1.s.err # "" THEN tau1
         ELSE Do([b \in {LetrecBind(tau1.s, env, t.v, tau1.v, tau1.v)} |->
                IF b.err # "" THEN Failed(b)
                ELSE J(Entered(b, "LetrecE2", env, e[2]), env, e[4])])])])

LetrecM(S, env, e, rho) ==
  IF S.env[env].map[e[2]] # 0
  THEN Raise(Entered(S, "LetrecDefine", env, e[2]), "Redefined")
  ELSE Do([t1 \in {newInfoOf(Entered(S, "LetrecDefine", env, e[2]),
                              TVariable(<<>>, S.env[env].depth), RBase(env))} |->
       Do([t2 \in {newInfoOf(t1.s, TVariable(<<>>, t1.s.env[env].depth), RTemporary)} |->
       Do([m \in {M(Entered(insert(t2.s, env, e[2], t1.v), "LetrecE1", env, e[2]), env, e[3],
                     t2.v)} |->
         IF m.err # "" THEN m
         ELSE Do([b \in {LetrecBind(m, env, t1.v, t2.v, t1.v)} |->
                IF b.err # "" THEN b
                ELSE M(Entered(b, "LetrecE2", env, e[2]), env, e[4], rho)])])])])

\* AccessToClassMethod::getClassMethod: the class list is read off type->type as it
\* stands, without solved
AccessGetClassMethod(S, env, e, type) ==
  Do([found \in {getClassMethod(getTypeClassList(S, S.ti[type].type, 0), e[3])} |->
    IF ~found.ok THEN Failed(Raise(S, "AmbiguousClassMethod"))
    ELSE IF found.cls = 0 THEN Failed(Raise(S, "MissingClassMethod"))
    ELSE Do([m \in {getInstantiatedMethod(S, env, e[3], type)} |->
           IF m.s.err # "" THEN Failed(m.s) ELSE newInfoAt(m.s, m.v, RTemporary)])])

AccessToClassMethodJ(S, env, e) ==
  Do([tau \in {J(S, env, e[2])} |->
    IF tau.s.err # "" THEN tau ELSE AccessGetClassMethod(tau.s, env, e, tau.v)])

AccessToClassMethodM(S, env, e, rho) ==
  Do([t \in {newInfoOf(S, TVariable(<<>>, S.env[env].depth), RVariable(S.env[env].depth))} |->
  Do([m \in {M(t.s, env, e[2], t.v)} |->
    IF m.err # "" THEN m
    ELSE Do([c \in {AccessGetClassMethod(m, env, e, t.v)} |->
           IF c.s.err # "" THEN c.s
           ELSE Do([u \in {unifyWithRef(c.s, <<"ti", rho>>, c.v)} |->
                  IF u.s.err # "" THEN u.s ELSE setTemporary(u.s, rho)])])])])

J(S, env, e) ==
  CASE e[1] = "Constant" -> ConstantJ(S, env, e)
    [] e[1] = "Identifier" -> IdentifierJ(S, env, e)
    [] e[1] = "Lambda" -> LambdaJ(S, env, e)
    [] e[1] = "Apply" -> ApplyJ(S, env, e)
    [] e[1] = "Let" -> LetJ(S, env, e)
    [] e[1] = "Letrec" -> LetrecJ(S, env, e)
    [] OTHER -> AccessToClassMethodJ(S, env, e)

M(S, env, e, rho) ==
  CASE e[1] = "Constant" -> ConstantM(S, env, e, rho)
    [] e[1] = "Identifier" -> IdentifierM(S, env, e, rho)
    [] e[1] = "Lambda" -> LambdaM(S, env, e, rho)
    [] e[1] = "Apply" -> ApplyM(S, env, e, rho)
    [] e[1] = "Let" -> LetM(S, env, e, rho)
    [] e[1] = "Letrec" -> LetrecM(S, env, e, rho)
    [] OTHER -> AccessToClassMethodM(S, env, e, rho)

(***************************************************************************)
(* SpecInfer: an expression is built and inferred, by J and by M, each in  *)
(* a type environment of its own (main() says the environment cannot be    *)
(* used again for the other algorithm).                                    *)
(***************************************************************************)
Literals == {Constant("number"), Constant("boolean")}
Leaves == Literals \cup {Identifier(x) : x \in Names}

\* the expressions with one more level over the expressions E
Compound(E) ==
  E \cup {Lambda(x, c, e) : x \in Names, c \in Constraints, e \in E}
    \cup {Apply(e1, e2) : e1 \in E, e2 \in E}
    \cup {Let(x, e1, e2) : x \in Names, e1 \in E, e2 \in E}
    \cup {Letrec(x, e1, e2) : x \in Names, e1 \in E, e2 \in E}
    \cup {AccessToClassMethod(e, "method") : e \in E}

RECURSIVE Expressions(_)
Expressions(d) == IF d <= 1 THEN Leaves ELSE Compound(Expressions(d - 1))

\* the reference function of main(): n: 'a& at a -> n, or the same under another
\* constraint
RefId(c) == Lambda("x", c, Identifier("x"))

\* a Let and a Letrec that define x
Definitions(x) ==
  {Let(x, e1, Identifier(x)) : e1 \in Leaves} \cup {Letrec(x, e1, Identifier(x)) : e1 \in Leaves}

\* a function applied to itself
SelfApply(x) == Lambda(x, "", Apply(Identifier(x), Identifier(x)))

\* x applied to h a and then to h b: h is applied twice, a first
TwoUses(x, h, a, b) ==
  Apply(Apply(Identifier(x), Apply(Identifier(h), a)), Apply(Identifier(h), b))

\* main()'s three expressions (f, g, i and n renamed), the let id of the first
\* program, deeper expressions around a lambda that gives its argument back, over
\* the expressions of depth d, definitions of a name that a lambda or a let
\* around them has bound, a function applied to itself, alone and let-bound, and
\* a lambda inside a lambda that gives back the parameter of the outer one, and a
\* let-bound lambda that applies the parameter of the lambda around the let, and
\* the let-bound function that takes a reference applied twice, to a constant,
\* to a let-bound identifier or to the parameter of a lambda
Examples(d) ==
  { Let("h", Lambda("x", "tc", Apply(AccessToClassMethod(Identifier("x"), "method"),
                                     Identifier("x"))),
        Apply(Identifier("h"), Constant("boolean"))),
    Let("h", Lambda("x", "ref", Constant("number")), Apply(Identifier("h"), Constant("boolean"))),
    Let("h", RefId("ref"), Let("y", Apply(Identifier("h"), Constant("boolean")), Identifier("y"))),
    Let("h", RefId(""),
        Apply(Apply(Apply(Identifier("h"), Identifier("h")), Identifier("h")),
              Constant("number"))) }
    \cup {Let("h", RefId(c), e) : c \in Constraints, e \in Expressions(d)}
    \cup {AccessToClassMethod(Apply(RefId(c), k), "method") : c \in Constraints, k \in Literals}
    \cup {Lambda("y", c1, Apply(RefId(c2), Identifier("y"))) : c1 \in Constraints, c2 \in Constraints}
    \cup {Let("h", RefId(c), Let("y", Lambda("x", "", Apply(Identifier("h"), k)), Identifier("y"))) :
            c \in Constraints, k \in Literals}
    \cup {Lambda("x", c, b) : c \in Constraints, b \in Definitions("x")}
    \cup {Lambda("x", "", Lambda("y", "", b)) : b \in Definitions("x")}
    \cup {Let("x", k, Lambda("y", "", b)) : k \in Literals, b \in Definitions("x")}
    \cup {SelfApply("x"), Let("h", SelfApply("x"), Identifier("h")),
          Letrec("h", SelfApply("x"), Identifier("h"))}
    \cup {Lambda("y", c1, Lambda("h", "", Apply(RefId(c2), Identifier("y")))) :
            c1 \in Constraints, c2 \in Constraints}
    \cup {Lambda("x", "", <<l, "y", Lambda("h", "", Apply(Identifier("x"), Identifier("h"))),
                             Identifier("y")>>) : l \in {"Let", "Letrec"}}
    \cup {Let("h", RefId("ref"), Let("y", k, Lambda("x", "", TwoUses("x", "h", a, b)))) :
            k \in Literals, a, b \in {Constant("boolean"), Identifier("y")}}
    \cup {Let("h", RefId("ref"), Lambda("y", c, Lambda("x", "", TwoUses("x", "h", a, b)))) :
            c \in {"", "number"}, a, b \in {Constant("number"), Identifier("y")}}

Programs(d) == Expressions(d) \cup Examples(d)

InferInit ==
  /\ st = Prelude
  /\ last = NoLast
  /\ expr \in Programs(MaxExprDepth)
  /\ resJ = NoRun
  /\ resM = NoRun

Ran(S, type) ==
  [done |-> TRUE, err |-> S.err, type |-> IF S.err = "" THEN <<type>> ELSE <<>>,
   s |-> DropLocals(S)]

\* expr->J(typeMap, env)
RunJ ==
  /\ ~resJ.done
  /\ \E b \in {Build(st, expr)} :
       \E r \in {J(b.s, EnvRoot, b.v)} : resJ' = Ran(r.s, r.v)
  /\ UNCHANGED <<st, last, expr, resM>>

\* auto t = env.newTypeInfo(Variable{env.depth}, Region::Variable{env.depth});
\* expr->M(typeMap, env, t)
RunM ==
  /\ ~resM.done
  /\ \E b \in {Build(st, expr)} :
       \E t \in {newInfoOf(b.s, TVariable(<<>>, RootDepth), RVariable(RootDepth))} :
         \E m \in {M(t.s, EnvRoot, b.v, t.v)} : resM' = Ran(m, t.v)
  /\ UNCHANGED <<st, last, expr, resJ>>

InferNext ==
  \/ RunJ
  \/ RunM

SpecInfer == InferInit /\ [][InferNext]_vars

(***************************************************************************)
(* Properties of J and M (SpecInfer)                                       *)
(***************************************************************************)
\* the names an expression uses without binding them
RECURSIVE FreeNames(_)
FreeNames(e) ==
  CASE e[1] = "Constant" -> {}
    [] e[1] = "Identifier" -> {e[2]}
    [] e[1] = "Lambda" -> FreeNames(e[4]) \ {e[2]}
    [] e[1] = "Apply" -> FreeNames(e[2]) \cup FreeNames(e[3])
    [] e[1] = "Let" -> FreeNames(e[3]) \cup (FreeNames(e[4]) \ {e[2]})
    [] e[1] = "Letrec" -> (FreeNames(e[3]) \cup FreeNames(e[4])) \ {e[2]}
    [] OTHER -> FreeNames(e[2])

\* the constraints written on the lambdas of an expression
RECURSIVE Annotations(_)
Annotations(e) ==
  CASE e[1] \in {"Constant", "Identifier"} -> {}
    [] e[1] = "Lambda" -> ({e[3]} \ {""}) \cup Annotations(e[4])
    [] e[1] = "Apply" -> Annotations(e[2]) \cup Annotations(e[3])
    [] e[1] = "AccessToClassMethod" -> Annotations(e[2])
    [] OTHER -> Annotations(e[3]) \cup Annotations(e[4])

\* a closed expression without explicit annotations
ClosedPlain == FreeNames(expr) = {} /\ Annotations(expr) = {}

\* outcomes that are no exception: an endless recursion or loop, a read through a
\* pointer to an environment that is gone, a failed assert
Undefined == {"StackOverflow", "Hang", "DanglingEnvPointer", "AssertRegion"}

\* J and M have both run to an exception or to a result
BothRan == resJ.done /\ resM.done /\ resJ.err \notin Undefined /\ resM.err \notin Undefined

\* the region g of P against the region h of S: unsolved Variables and Params pair up
AlikeRegion(P, g, S, h) ==
  LET a == RepR(P, g)
      b == RepR(S, h)
  IN IF P.rg[a].kind # S.rg[b].kind THEN {<<"fail", 0, 0>>}
     ELSE IF P.rg[a].kind \in {"Variable", "Param"} THEN {<<"r", a, b>>}
     ELSE IF P.rg[a].kind = "Base" /\ P.rg[a].env # S.rg[b].env THEN {<<"fail", 0, 0>>}
     ELSE {}

\* the type t of the state P against the type r of the state S: the pairs of
\* unsolved Variables, and of Params, in the same places, and the pair "fail" where
\* the two types differ otherwise
RECURSIVE AlikeOn(_, _, _, _, _)
AlikeOn(P, t, S, r, path) ==
  LET x == Rep(P, t)
      y == Rep(S, r)
      nx == P.ty[x]
      ny == S.ty[y]
      down == path \cup {<<x, y>>}
  IN IF <<x, y>> \in path THEN {}
     ELSE IF nx.kind # ny.kind THEN {<<"fail", 0, 0>>}
     ELSE CASE nx.kind = "Base" -> IF nx.name = ny.name THEN {} ELSE {<<"fail", 0, 0>>}
            [] nx.kind = "Function" ->
                 AlikeOn(P, nx.p, S, ny.p, down) \cup AlikeOn(P, nx.r, S, ny.r, down)
            [] nx.kind = "Ref" ->
                 AlikeOn(P, nx.p, S, ny.p, down) \cup AlikeRegion(P, nx.region, S, ny.region)
            [] nx.kind = "TypeClass" ->
                 IF ClassSet(nx.cs) # ClassSet(ny.cs) THEN {<<"fail", 0, 0>>}
                 ELSE AlikeRegion(P, nx.region, S, ny.region)
            [] OTHER -> {<<"t", x, y>>}

\* the type J returned and the type rho resolves to after M
TypeJ == resJ.s.ti[resJ.type[1]].type
TypeM == resM.s.ti[resM.type[1]].type

\* the two are one type up to the renaming of Variables and Params
SameType ==
  /\ <<"fail", 0, 0>> \notin AlikeOn(resJ.s, TypeJ, resM.s, TypeM, {})
  /\ OneToOne(AlikeOn(resJ.s, TypeJ, resM.s, TypeM, {}))

\* C3: for a closed expression without explicit annotations J returns a type
\* exactly when M succeeds, J raises exactly when M raises, and the type rho
\* resolves to is the type of J up to the renaming of Variables and Params.
C3_Agreement ==
  (BothRan /\ ClosedPlain) =>
    /\ resJ.err = "" <=> resM.err = ""
    /\ resJ.err = "" => SameType

\* e's type is a Ref: the node of the Ref, else 0
RefOf(S, typeInfo) ==
  IF S.ty[Rep(S, S.ti[typeInfo].type)].kind = "Ref" THEN Rep(S, S.ti[typeInfo].type) ELSE 0

\* the region of the Ref t is Base{env'}, env' being scope or inside it
RefInto(S, t, scope) ==
  /\ S.ty[t].kind = "Ref"
  /\ S.rg[RepR(S, S.ty[t].region)].kind = "Base"
  /\ IsAncestorOrSelf(S, scope, S.rg[RepR(S, S.ty[t].region)].env)

\* the region of the Ref t is Temporary
RefToTemporary(S, t) ==
  S.ty[t].kind = "Ref" /\ S.rg[RepR(S, S.ty[t].region)].kind = "Temporary"

\* the dangling checks a run made, by the kind of expression
Checks(run, ops) == {k \in 1..Len(run.s.log) : run.s.log[k].op \in ops}

\* C5: when J or M of a Lambda completes without raising, the function type of
\* the lambda holds no Ref whose region is Base{env'} with env' the lambda's own
\* environment or one inside it; a body whose type is such a Ref makes J, and M,
\* raise Dangling.
C5_LambdaOf(run) ==
  run.done =>
    \A k \in Checks(run, {"Lambda"}) :
      LET c == run.s.log[k]
      IN /\ ~c.raised =>
              \A t \in Reach(c.s, c.s.ti[c.type].type) : ~RefInto(c.s, t, c.env)
         /\ (RefOf(c.s, c.body) # 0 /\ RefInto(c.s, RefOf(c.s, c.body), c.env)) => c.raised

C5_LambdaDangling == C5_LambdaOf(resJ) /\ C5_LambdaOf(resM)

\* C6: in the states J and M reach, no type or scheme a Let or Letrec has bound
\* holds a Ref whose region is Temporary; a Let / Letrec whose bound expression has
\* the type of a reference to a Temporary raises Dangling and binds nothing.
C6_LetOf(run) ==
  run.done =>
    \A k \in Checks(run, {"Let", "Letrec"}) :
      LET c == run.s.log[k]
      IN /\ ~c.raised =>
              \A t \in Reach(run.s, run.s.ti[c.type].type) : ~RefToTemporary(run.s, t)
         /\ (RefOf(c.s, c.body) # 0 /\ RefToTemporary(c.s, RefOf(c.s, c.body))) => c.raised

C6_LetDangling == C6_LetOf(resJ) /\ C6_LetOf(resM)

\* the run raised Redefined at the k-th entry of its history
RedefinedAt(run, k) == k = Len(run.s.log) /\ run.err = "Redefined"

\* x is bound in an environment around env, and not in env itself
RECURSIVE BoundAbove(_, _, _)
BoundAbove(S, env, x) ==
  IF S.env[env].parent = 0 THEN FALSE
  ELSE IF S.env[S.env[env].parent].map[x] # 0 THEN TRUE
  ELSE BoundAbove(S, S.env[env].parent, x)

\* the binding the entry c saw is the binding of the name at the end of the run
SameBinding(run, c) ==
  /\ run.s.env[c.env].map[c.name] = c.body
  /\ run.s.ti[c.body] = c.s.ti[c.body]

\* C18 as stated: a Let or Letrec of x evaluated in an environment whose own map
\* binds x raises Redefined and leaves the binding as it is.
C18_AsClaimedOf(run) ==
  run.done =>
    \A k \in Checks(run, {"LetIn", "LetrecDefine"}) :
      run.s.log[k].body # 0 => (run.err = "Redefined" /\ SameBinding(run, run.s.log[k]))

C18_AsClaimed == C18_AsClaimedOf(resJ) /\ C18_AsClaimedOf(resM)

\* C18: a Letrec of x evaluated in an environment whose own map binds x raises
\* Redefined before anything else; a Let of x does so once its e1 is inferred and
\* checked for dangling, and raises what these raise otherwise; either way the
\* map still binds x to the same TypeInfo.  A Let or Letrec of a name its own map
\* does not bind, a name of an environment around it included, does not raise
\* Redefined.
C18_RedefinitionOf(run) ==
  run.done =>
    /\ \A k \in Checks(run, {"LetDefine", "LetrecDefine"}) :
         /\ run.s.log[k].body # 0 =>
              (RedefinedAt(run, k) /\ SameBinding(run, run.s.log[k]))
         /\ run.s.log[k].body = 0 => ~RedefinedAt(run, k)
         /\ BoundAbove(run.s.log[k].s, run.s.log[k].env, run.s.log[k].name) =>
              (run.s.log[k].body # 0 <=> RedefinedAt(run, k))
    /\ \A k \in Checks(run, {"LetIn"}) :
         run.s.log[k].body # 0 =>
           /\ run.err # ""
           /\ run.s.env[run.s.log[k].env].map[run.s.log[k].name] = run.s.log[k].body

C18_Redefinition == C18_RedefinitionOf(resJ) /\ C18_RedefinitionOf(resM)

\* J and M have met a Let of a name its lambda binds, and raised Redefined
C18_WitnessOf(run) ==
  /\ run.done
  /\ \E k \in Checks(run, {"LetDefine"}) :
       /\ run.s.log[k].body # 0
       /\ run.s.log[k].env # EnvRoot
       /\ RedefinedAt(run, k)

C18_Witness == C18_WitnessOf(resJ) /\ C18_WitnessOf(resM)

(***************************************************************************)
(* SpecConstraints: one Constraints object, whose list is held in expr, is *)
(* merged with class lists and asked for class methods.                    *)
(***************************************************************************)
ClassLists(n) == UNION {[1..k -> ClassIds] : k \in 0..n}

MethodNames == {"method", "missing"}

LastOn(op, list, constraints, name, found) ==
  [op |-> op, list |-> list, constraints |-> constraints, name |-> name, found |-> found]

ConstraintsInit ==
  /\ st = EmptyState
  /\ last = LastOn("none", <<>>, <<>>, "", 0)
  /\ expr \in ClassLists(MaxList)
  /\ resJ = NoRun
  /\ resM = NoRun

\* list.merge(constraints)
Merge ==
  \E constraints \in ClassLists(MaxOther) :
    /\ expr' = merge(expr, constraints)
    /\ last' = LastOn("merge", expr, constraints, "", 0)
    /\ UNCHANGED <<st, resJ, resM>>

\* list.getClassMethod(name)
GetClassMethod ==
  \E name \in MethodNames :
    /\ last' = LastOn("getClassMethod", expr, <<>>, name, getClassMethod(expr, name))
    /\ UNCHANGED <<st, expr, resJ, resM>>

ConstraintsNext ==
  \/ Merge
  \/ GetClassMethod

SpecConstraints == ConstraintsInit /\ [][ConstraintsNext]_vars

(***************************************************************************)
(* Properties of Constraints (SpecConstraints)                             *)
(***************************************************************************)
\* two lists entail the same classes
SameClasses(l1, l2) == \A c \in ClassIds : has(l1, c) <=> has(l2, c)

\* no two elements of the list are comparable, and none is there twice
Antichain(list) ==
  \A i \in 1..Len(list), j \in 1..Len(list) : i # j => ~derived(list[i], list[j])

\* the classes of the list and of their bases that define name
Defining(list, name) == {c \in ClassIds : has(list, c) /\ name \in ClassTable[c].methods}

\* C12: after list.merge(other) every class of other is entailed by the list.
C12_MergeEntails ==
  last.op = "merge" =>
    \A k \in 1..Len(last.constraints) : has(expr, last.constraints[k])

\* C13: merge is idempotent and associative modulo the subclass order, and after any
\* merge no two elements of the list are comparable and no class is there twice.
C13_MergeAlgebra ==
  last.op = "merge" =>
    /\ SameClasses(merge(expr, last.constraints), expr)
    /\ \A c \in ClassLists(MaxList) :
         SameClasses(merge(expr, c), merge(last.list, merge(last.constraints, c)))
    /\ Antichain(expr)

\* C15: getClassMethod(n) raises exactly when two classes of the list that are
\* incomparable in the subclass order both define n directly.
C15_AmbiguousExactly ==
  last.op = "getClassMethod" =>
    (~last.found.ok <=>
       \E i \in 1..Len(expr), j \in 1..Len(expr) :
         /\ ~derived(expr[i], expr[j])
         /\ ~derived(expr[j], expr[i])
         /\ last.name \in ClassTable[expr[i]].methods
         /\ last.name \in ClassTable[expr[j]].methods)

\* C16: when getClassMethod(name) does not raise, the class it returns is the
\* most-derived one among the classes of the list and of their bases that define
\* name, and it returns no class only if none of them defines name.
C16_MostDerived ==
  (last.op = "getClassMethod" /\ last.found.ok) =>
    IF last.found.cls = 0 THEN Defining(expr, last.name) = {}
    ELSE /\ last.found.cls \in Defining(expr, last.name)
         /\ \A d \in Defining(expr, last.name) : derived(last.found.cls, d)

(***************************************************************************)
(* SpecEngine: types are built over the builtin ones, and the operations   *)
(* of the engine are run on them.                                          *)
(***************************************************************************)
\* the class lists an operation may be given
ClassChoices == {<<1>>, <<2>>, <<3>>, <<1, 3>>}

\* the regions of the TypeInfo of an expression
InfoRegions == {RBase(EnvRoot), RTemporary}

\* an operation is run on the types as they were built, or after constraints were
\* applied to them
CanRun == st.err = "" /\ last.op \in {"none", "applyConstraint"} /\ Operations < MaxOperations

\* the Variable the unification before was called on
Resolved ==
  IF last.op = "unifyWithRef" /\ last.pre.ty[last.a].kind = "Variable" THEN {last.a} ELSE {}

\* a unification is run on the types as they were built or constrained, or on the
\* Variable the unification before was called on
CanRunOn(a) ==
  /\ st.err = ""
  /\ Operations < MaxOperations
  /\ last.op \in {"none", "applyConstraint"} \/ a \in Resolved

\* env.newTypeInfo(type, env.newRegion(region))
typeInfoOf(S, type, region) ==
  Do([n \in {newRegion(S, region)} |-> newTypeInfo(n.s, Mono(type), n.v)])

\* typeMap.applyConstraint(type, typeClasses)
ApplyConstraint ==
  \E a \in Usable(st), typeClasses \in ClassChoices :
    /\ \/ CanRun
       \/ st.err = "" /\ last.op = "generalize" /\ Operations < MaxOperations
    /\ \E A \in {applyConstraint(st, a, typeClasses)} :
         /\ st' = A
         /\ last' = [Last("applyConstraint", a, 0, FALSE, A.err = "", "", a, a, Mono(0), st)
                     EXCEPT !.err = A.err, !.n = last.n + 1, !.built = BuiltCount,
                            !.list = typeClasses]
    /\ UNCHANGED <<expr, resJ, resM>>

\* ImplicitCastPattern c = unifyWithRef(typeMap, type1, type2), the caller holding
\* the handle type1 and the TypeInfo type2, made last
UnifyWithRef ==
  \E a \in Usable(st), b \in Usable(st), region \in InfoRegions :
    /\ CanRunOn(a)
    /\ \E i \in {typeInfoOf(PushT(st, a), b, region)} :
         \E u \in {unifyWithRef(i.s, <<"loc", 1>>, i.v)} :
           /\ st' = DropLocals(u.s)
           /\ last' = [Last("unifyWithRef", a, b, FALSE, u.s.err = "", u.v,
                            GetT(u.s, <<"loc", 1>>), u.s.ti[i.v].type, Mono(0), DropLocals(i.s))
                       EXCEPT !.err = u.s.err, !.n = last.n + 1, !.built = BuiltCount]
    /\ UNCHANGED <<expr, resJ, resM>>

\* the types unifyFunction is called on: number, and the type built last
Applied(S) == {S.numberT} \cup {t \in Usable(S) : t = Len(S.ty)}

\* unifyFunction(typeMap, env, type1, type2p, type2r) as Apply::J calls it: type2p
\* is the TypeInfo of the argument, type2r one of region Temporary; the two
\* TypeInfos are made last
UnifyFunction ==
  \E a \in Applied(st) \cup Resolved, p \in Usable(st), r \in Usable(st) :
    /\ CanRunOn(a)
    /\ \E ip \in {typeInfoOf(st, p, RBase(EnvRoot))} :
         \E ir \in {typeInfoOf(ip.s, r, RTemporary)} :
           \E u \in {unifyFunction(ir.s, EnvRoot, a, ip.v, ir.v)} :
             /\ st' = DropLocals(u.s)
             /\ last' = [Last("unifyFunction", a, 0, FALSE, u.s.err = "", "", ip.v, ir.v,
                              Mono(0), ir.s)
                         EXCEPT !.err = u.s.err, !.n = last.n + 1, !.built = BuiltCount,
                                !.list = <<p, r>>, !.casts = u.v]
    /\ UNCHANGED <<expr, resJ, resM>>

EngineNext ==
  \/ NewTypeVariable
  \/ NewTypeFunction
  \/ NewTypeRef
  \/ NewTypeTypeClass
  \/ ApplyConstraint
  \/ UnifyWithRef
  \/ UnifyFunction
  \/ Generalize
  \/ Instantiate

SpecEngine == UnifyInit /\ [][EngineNext]_vars

(***************************************************************************)
(* Properties of the engine operations (SpecEngine)                        *)
(***************************************************************************)
\* the node unwrapRef(t) gives, read without compressing
RECURSIVE Unwrapped(_, _, _)
Unwrapped(S, t, seen) ==
  IF S.ty[Rep(S, t)].kind = "Ref" /\ Rep(S, t) \notin seen
  THEN Unwrapped(S, S.ty[Rep(S, t)].p, seen \cup {Rep(S, t)})
  ELSE Rep(S, t)

\* the class c is entailed by the constraints of t
Entailed(S, t, c) == has(getTypeClassList(S, Unwrapped(S, t, {}), 0), c)

EngineOps == {"applyConstraint", "unifyWithRef", "unifyFunction", "generalize", "instantiate"}

\* C14: the constraints of a Variable only grow: a class they entail before an
\* operation of the engine is entailed by them after it.
C14_Monotone ==
  (last.op \in EngineOps /\ last.err = "") =>
    \A v \in 1..Len(last.pre.ty) :
      last.pre.ty[v].kind = "Variable" =>
        \A c \in ClassIds : Entailed(last.pre, v, c) => Entailed(st, v, c)

\* the type applyConstraint works on, and its class list, when it was called
AppliedTo == Unwrapped(last.pre, last.a, {})
AppliedList == getTypeClassList(last.pre, AppliedTo, 0)

AppliedOn == Rep(last.pre, last.a)

SlotsUnified ==
  Do([u \in {unifyWithRef(solved(last.pre, last.a).s, <<"p", AppliedOn>>, last.h1)} |->
  Do([w \in {unifyWithRef(u.s, <<"r", AppliedOn>>, last.h2)} |->
    [s |-> DropLocals(w.s), v |-> <<u.v, w.v>>]])])

\* C19: unifyFunction(t1, p, r) on a t1 that resolves to a Function runs
\* unifyWithRef on the parameter slot against p, then on the return slot against
\* r, and returns the two casts; on an unsolved Variable it solves the Variable to
\* fn(p.type, r.type) and returns NONE; on any other kind it raises TypeMismatch.
C19_UnifyFunction ==
  last.op = "unifyFunction" =>
    CASE last.pre.ty[AppliedOn].kind = "Function" ->
           /\ st = SlotsUnified.s
           /\ last.err = "" => last.casts = SlotsUnified.v
      [] last.pre.ty[AppliedOn].kind = "Variable" ->
           /\ last.err = ""
           /\ last.casts = <<"NONE">>
           /\ st.ty[AppliedOn].solve > Len(last.pre.ty)
           /\ st.ty[st.ty[AppliedOn].solve].kind = "Function"
           /\ st.ty[st.ty[AppliedOn].solve].base = st.ty[st.fnG.type].base
           /\ Rep(st, st.ty[st.ty[AppliedOn].solve].p) = Rep(st, last.pre.ti[last.h1].type)
           /\ Rep(st, st.ty[st.ty[AppliedOn].solve].r) = Rep(st, last.pre.ti[last.h2].type)
      [] OTHER -> last.err = "TypeMismatch"

\* a function type was applied, and its parameter of a Ref type took the argument
\* by reference
C19_Witness ==
  /\ last.op = "unifyFunction"
  /\ last.pre.ty[AppliedOn].kind = "Function"
  /\ last.err = ""
  /\ last.casts[1] = "REFERENCE"

\* the TypeInfo unifyWithRef was given, the types its two arguments resolve to,
\* and the state after the two solved, the caller's handle being <<"loc", 1>>
GivenInfo == Len(last.pre.ti)
WithRefT1 == Rep(last.pre, last.a)
WithRefT2 == Rep(last.pre, last.pre.ti[GivenInfo].type)
WithRefK1 == last.pre.ty[WithRefT1].kind
WithRefK2 == last.pre.ty[WithRefT2].kind
BothSolved == solveT(solveT(PushT(last.pre, last.a), <<"loc", 1>>), <<"ti", GivenInfo>>)

\* then the region of type2 is converted to the region of type1
Widened(S, cast) ==
  IF S.err # "" THEN None(DropLocals(S))
  ELSE Do([c \in {convert(S, <<"ti", GivenInfo>>, <<"ty", WithRefT1>>)} |->
         Returning(DropLocals(IF c.s.err = "" /\ ~c.v THEN Raise(c.s, "AssertRegion") ELSE c.s),
                   cast)])

\* the pointee of type1 is unified with type2, without implicit conversion
RefWidened ==
  Widened(unifyType(BothSolved, <<"p", WithRefT1>>, <<"ti", GivenInfo>>, FALSE).s, "REFERENCE")

\* the classes of type1 are applied to type2
ClassWidened ==
  Widened(applyConstraint(BothSolved, WithRefT2, last.pre.ty[WithRefT1].cs), "TYPECLASS")

\* unifyType(type1, t2, true)
Delegated ==
  Do([u \in {unifyType(BothSolved, <<"loc", 1>>, <<"ti", GivenInfo>>, TRUE)} |->
    [s |-> DropLocals(u.s), v |-> u.v]])

\* the outcome of the last unifyWithRef is the outcome o
OutcomeIs(o) == st = o.s /\ (last.err = "" => last.cast = o.v)

\* C20 as stated: type1 a Ref and type2 any type but a Ref is the widening to a
\* reference, type1 a TypeClass type and type2 any type but a TypeClass type is the
\* widening to a class, and unifyType is called only when neither applies.
C20_AsClaimed ==
  last.op = "unifyWithRef" =>
    CASE WithRefK1 = "Ref" /\ WithRefK2 # "Ref" -> OutcomeIs(RefWidened)
      [] WithRefK1 = "TypeClass" /\ WithRefK2 # "TypeClass" -> OutcomeIs(ClassWidened)
      [] OTHER -> OutcomeIs(Delegated)

\* C20: the two widenings apply when type2 resolves to a type of another kind than
\* type1 that is not an unsolved Variable: for type1 a Ref the pointee of type1 is
\* unified with type2 without implicit conversion, the region of type2 is
\* converted to the region of type1 and REFERENCE is returned; for type1 a
\* TypeClass type its classes are applied to type2, the regions are converted and
\* TYPECLASS is returned.  In every other case, an unsolved Variable type2 included,
\* the outcome is that of unifyType(type1, type2, true).
C20_Widening ==
  last.op = "unifyWithRef" =>
    CASE WithRefK1 = "Ref" /\ WithRefK2 \notin {"Ref", "Variable"} -> OutcomeIs(RefWidened)
      [] WithRefK1 = "TypeClass" /\ WithRefK2 \notin {"TypeClass", "Variable"} ->
           OutcomeIs(ClassWidened)
      [] OTHER -> OutcomeIs(Delegated)

\* a Ref type took a type that is no Ref and no Variable by reference
C20_Witness ==
  /\ last.op = "unifyWithRef"
  /\ WithRefK1 = "Ref"
  /\ WithRefK2 \in {"Base", "Function", "TypeClass"}
  /\ last.err = ""
  /\ last.cast = "REFERENCE"

\* the Variables that carried constraints and were unsolved when the last operation
\* was called
Constrained ==
  {v \in 1..Len(last.pre.ty) :
     /\ last.pre.ty[v].kind = "Variable"
     /\ last.pre.ty[v].solve = 0
     /\ last.pre.ty[v].cs # <<>>}

\* C30: a Variable that carries constraints and is solved to a type that is not a
\* Variable by unifyWithRef (unifyType through it) or unifyFunction is solved to a
\* type that implements every class of its constraint list; otherwise it stays
\* unsolved.
C30_ConstraintSoundness ==
  last.op \in {"unifyWithRef", "unifyFunction"} =>
    \A v \in Constrained :
      (st.ty[v].solve # 0 /\ st.ty[Rep(st, v)].kind # "Variable") =>
        Implements(st, Rep(st, v), last.pre.ty[v].cs)

\* the edges of the type graph from t: the children of a Function, the pointee of a
\* Ref, the solution of a Variable
Children(S, t) ==
  CASE S.ty[t].kind = "Function" -> {S.ty[t].p, S.ty[t].r}
    [] S.ty[t].kind = "Ref" -> {S.ty[t].p}
    [] S.ty[t].kind = "Variable" -> {S.ty[t].solve} \ {0}
    [] OTHER -> {}

\* t is reached from one of its own children
OnCycle(S, t) == \E c \in Children(S, t) : t \in Reach(S, c)

Acyclic(S) == \A t \in 1..Len(S.ty) : ~OnCycle(S, t)

\* C22: a unification (unifyWithRef, unifyType through it, unifyFunction) that
\* starts from an acyclic type graph and returns without raising leaves the graph
\* of solve, Function and Ref edges acyclic.
C22_Acyclic ==
  (last.op \in {"unifyWithRef", "unifyFunction"} /\ last.err = "" /\ Acyclic(last.pre)) =>
    Acyclic(st)

\* the outcomes of a call that never returns: an endless recursion, an endless loop
NeverReturns == {"StackOverflow", "Hang"}

\* C21: J and M terminate on every expression: each run returns a type or raises
\* an error; none runs into an endless recursion of solved, depend, generalize,
\* instantiate or a unification.
C21_Termination ==
  \A run \in {resJ, resM} : run.done => run.err \notin NeverReturns

(***************************************************************************)
(* SpecSolved: Variables and Ref types are built and unified, which makes  *)
(* solve chains of types and of regions, and solved is called on a type or *)
(* on a region.                                                            *)
(***************************************************************************)
\* the calls made so far are fewer than the bound
CanCall == st.err = "" /\ BuiltCount > 0 /\ last.n < MaxOperations

\* unifyType(typeMap, type1, type2, false), the caller holding the two handles
UnifyBuilt ==
  \E a \in Usable(st), b \in Usable(st) :
    /\ CanCall
    /\ \E u \in {unifyType(PushT(PushT(st, a), b), <<"loc", 1>>, <<"loc", 2>>, FALSE)} :
         /\ st' = DropLocals(u.s)
         /\ last' = [Last("unifyType", a, b, FALSE, u.s.err = "", u.v,
                          GetT(u.s, <<"loc", 1>>), GetT(u.s, <<"loc", 2>>), Mono(0), st)
                     EXCEPT !.err = u.s.err, !.n = last.n + 1, !.built = BuiltCount]
    /\ UNCHANGED <<expr, resJ, resM>>

\* RefType t = solved(type)
Solved ==
  \E a \in Usable(st) :
    /\ CanCall
    /\ \E r \in {solved(st, a)} :
         /\ st' = r.s
         /\ last' = [Last("solved", a, 0, FALSE, r.s.err = "", "", r.v, 0, Mono(0), st)
                     EXCEPT !.err = r.s.err, !.n = last.n + 1, !.built = BuiltCount]
    /\ UNCHANGED <<expr, resJ, resM>>

\* RefRegion r = solved(region)
SolvedRegion ==
  \E a \in 1..Len(st.rg) :
    /\ CanCall
    /\ \E r \in {solvedRegion(st, a)} :
         /\ st' = r.s
         /\ last' = [Last("solvedRegion", a, 0, FALSE, r.s.err = "", "", r.v, 0, Mono(0), st)
                     EXCEPT !.err = r.s.err, !.n = last.n + 1, !.built = BuiltCount]
    /\ UNCHANGED <<expr, resJ, resM>>

SolvedNext ==
  \/ NewTypeVariable
  \/ NewTypeRef
  \/ UnifyBuilt
  \/ Solved
  \/ SolvedRegion

SpecSolved == UnifyInit /\ [][SolvedNext]_vars

(***************************************************************************)
(* Properties of solved (SpecSolved)                                       *)
(***************************************************************************)
\* the solved Variables on the solve chain of t, and of the region g
RECURSIVE Chain(_, _)
Chain(S, t) ==
  IF S.ty[t].kind = "Variable" /\ S.ty[t].solve # 0 THEN {t} \cup Chain(S, S.ty[t].solve) ELSE {}

RECURSIVE ChainR(_, _, _)
ChainR(S, g, seen) ==
  IF S.rg[g].kind = "Variable" /\ S.rg[g].solve # 0 /\ g \notin seen
  THEN ChainR(S, S.rg[g].solve, seen \cup {g})
  ELSE seen

\* solved(type) on the type last.a: the end of the chain is returned, the chain is
\* compressed, nothing else changes and a second call changes nothing
TypeCompressed ==
  /\ last.err = ""
  /\ last.h1 = Rep(last.pre, last.a)
  /\ \A v \in Chain(last.pre, last.a) : st.ty[v].solve = last.h1
  /\ \A t \in 1..Len(last.pre.ty) : Rep(st, t) = Rep(last.pre, t)
  /\ \A t \in (1..Len(last.pre.ty)) \ Chain(last.pre, last.a) : st.ty[t] = last.pre.ty[t]
  /\ Len(st.ty) = Len(last.pre.ty)
  /\ st.rg = last.pre.rg
  /\ solved(st, last.a) = [s |-> st, v |-> last.h1]

\* the same for solved(region) on the region last.a
RegionCompressed ==
  /\ last.err = ""
  /\ last.h1 = RepR(last.pre, last.a)
  /\ \A v \in ChainR(last.pre, last.a, {}) : st.rg[v].solve = last.h1
  /\ \A g \in 1..Len(last.pre.rg) : RepR(st, g) = RepR(last.pre, g)
  /\ \A g \in (1..Len(last.pre.rg)) \ ChainR(last.pre, last.a, {}) : st.rg[g] = last.pre.rg[g]
  /\ Len(st.rg) = Len(last.pre.rg)
  /\ st.ty = last.pre.ty
  /\ solvedRegion(st, last.a) = [s |-> st, v |-> last.h1]

\* C25: solved(t) returns the end of the solve chain of t; afterwards every
\* Variable of the chain is solved to that node, every node resolves to what it
\* resolved to before, nothing is allocated and a second call returns the same
\* node and changes nothing; solved on a region behaves the same.
C25_PathCompression ==
  /\ last.op = "solved" => TypeCompressed
  /\ last.op = "solvedRegion" => RegionCompressed

\* the region of the Ref t is Base{env'}, env' being a strict ancestor of scope
RefAbove(S, t, scope) ==
  /\ S.ty[t].kind = "Ref"
  /\ S.rg[RepR(S, S.ty[t].region)].kind = "Base"
  /\ S.rg[RepR(S, S.ty[t].region)].env # scope
  /\ IsAncestorOrSelf(S, S.rg[RepR(S, S.ty[t].region)].env, scope)

\* C28: a Lambda whose body has the type of a Ref of region Base{e}, e a strict
\* ancestor of the lambda's new environment, does not raise Dangling, under J and
\* under M; the check raises only for a body whose type is a Ref into the new
\* environment or to a Temporary.
C28_OwnScopeOf(run) ==
  run.done =>
    \A k \in Checks(run, {"Lambda"}) :
      LET c == run.s.log[k]
      IN /\ (RefOf(c.s, c.body) # 0 /\ RefAbove(c.s, RefOf(c.s, c.body), c.env)) => ~c.raised
         /\ c.raised =>
              /\ RefOf(c.s, c.body) # 0
              /\ \/ RefInto(c.s, RefOf(c.s, c.body), c.env)
                 \/ RefToTemporary(c.s, RefOf(c.s, c.body))

C28_OwnScope == C28_OwnScopeOf(resJ) /\ C28_OwnScopeOf(resM)

\* the nodes reached from the types bound to identifiers in env and in the
\* environments around it, the TypeInfo own left out
RECURSIVE BoundReach(_, _, _)
BoundReach(S, env, own) ==
  UNION {Reach(S, S.ti[S.env[env].map[n]].type) :
           n \in {n \in Names : S.env[env].map[n] # 0 /\ S.env[env].map[n] # own}}
    \cup (IF S.env[env].parent # 0 THEN BoundReach(S, S.env[env].parent, own) ELSE {})

\* the unsolved Variables of P that are solved to a Param in S
Turned(P, S) ==
  {v \in 1..Len(P.ty) :
     /\ P.ty[v].kind = "Variable"
     /\ P.ty[v].solve = 0
     /\ S.ty[v].solve # 0
     /\ S.ty[S.ty[v].solve].kind = "Param"}

\* the points of a run where a Let or a Letrec called generalize and bound the
\* result
Generalizations(run) ==
  {k \in 1..(Len(run.s.log) - 1) :
     /\ run.s.log[k].op \in {"LetDefine", "LetrecGeneralize"}
     /\ ~run.s.log[k].raised
     /\ run.s.log[k + 1].op \in {"Let", "Letrec"}}

\* C29: the generalize of a Let or Letrec turns into a Param no Variable that is
\* reached from the type of an identifier bound in the environment of the Let or
\* in an environment around it (the name being defined by a Letrec left out).
C29_NoCaptureOf(run) ==
  run.done =>
    \A k \in Generalizations(run) :
      Turned(run.s.log[k].s, run.s.log[k + 1].s)
        \cap BoundReach(run.s.log[k].s, run.s.log[k].env,
                        IF run.s.log[k].op = "LetrecGeneralize" THEN run.s.log[k].body ELSE 0) = {}

C29_NoCapture == C29_NoCaptureOf(resJ) /\ C29_NoCaptureOf(resM)

\* the states a run went through: the points of its history and its end
StatesOf(run) == {run.s} \cup {run.s.log[k].s : k \in 1..Len(run.s.log)}

\* the TypeInfos bound to identifiers in the environments of S that are still
\* there, and the types bound as they are (no scheme)
Bindings(S) ==
  {S.env[e].map[n] : e \in {e \in 1..Len(S.env) : S.env[e].live}, n \in Names} \ {0}

Monomorphic(S) == {S.ti[b].type : b \in {b \in Bindings(S) : ~S.ti[b].gen}}

\* the Params among the nodes T
ParamsIn(S, T) == {t \in T : S.ty[t].kind = "Param"}

\* C24: in every state J and M go through, no Param is reached from a type that
\* is bound as it is (no scheme) to an identifier, such as the parameter of a
\* lambda around a Let: no Variable of such a type has a solve chain that ends at
\* or leads into a Param.
C24_ParamPlacementOf(run) ==
  run.done =>
    \A S \in StatesOf(run) :
      \A t \in Monomorphic(S) : ParamsIn(S, Reach(S, t)) = {}

C24_ParamPlacement == C24_ParamPlacementOf(resJ) /\ C24_ParamPlacementOf(resM)


\* C23: no run of J or M on an expression ends in the failed assert(false) that
\* follows a convert call returning false in unifyWithRef or unifyType, also
\* when one function that takes a reference is applied twice to arguments of
\* different regions.
C23_ConvertSucceeds == \A run \in {resJ, resM} : run.done => run.err # "AssertRegion"

\* the TypeInfo b of the state S holds the variant g that generalize returned
Holds(S, b, g) ==
  /\ S.ti[b].gen = g.gen
  /\ S.ti[b].type = g.type
  /\ S.ti[b].vals = g.vals
  /\ S.ti[b].rvals = g.rvals

\* the result of env.generalize as called at the history entry c on the type of
\* the TypeInfo from
GeneralizedAt(c, from) == generalize(c.s, c.env, c.s.ti[from].type, <<>>).v

\* C27: when J or M is called on e1 of a Let of x, no map has changed since the
\* Let was entered (x is not bound by this Let), and a Let of x whose e1 is x
\* itself, with no binding of x around it, raises UnknownIdentifier; when J or M
\* is called on e2, the map of the environment binds x to the TypeInfo that
\* holds the result of generalize on the type of e1.  When J or M is called on
\* e1 of a Letrec of x, the map binds x to a TypeInfo made since the Letrec was
\* entered whose type is a new Variable of the environment's depth, unsolved
\* and without constraints; when J or M is called on e2, the same TypeInfo is
\* bound and holds the result of generalize.
C27_BindingOrderOf(run) ==
  run.done =>
    /\ (expr[1] = "Let" /\ expr[3] = Identifier(expr[2])) => run.err = "UnknownIdentifier"
    /\ (expr[1] = "Letrec" /\ expr[3] = Identifier(expr[2]) /\ expr[4] = expr[3]) =>
         run.err # "UnknownIdentifier"
    /\ \A k \in 1..Len(run.s.log) :
         LET c == run.s.log[k]
             b == run.s.log[IF k > 1 THEN k - 1 ELSE k]
             a == run.s.log[IF k > 2 THEN k - 2 ELSE k]
         IN  /\ c.op = "LetE1" =>
                  /\ b.op = "LetIn" /\ b.name = c.name /\ b.env = c.env
                  /\ c.s.env = b.s.env
             /\ c.op = "LetE2" =>
                  /\ b.op = "Let" /\ a.op = "LetDefine" /\ a.name = c.name /\ a.body = 0
                  /\ c.body # 0 /\ c.body = b.type
                  /\ Holds(c.s, c.body, GeneralizedAt(a, b.body))
             /\ c.op = "LetrecE1" =>
                  /\ b.op = "LetrecDefine" /\ b.name = c.name /\ b.body = 0
                  /\ c.body > Len(b.s.ti)
                  /\ ~c.s.ti[c.body].gen
                  /\ c.s.ti[c.body].type > Len(b.s.ty)
                  /\ c.s.ty[c.s.ti[c.body].type] = TVariable(<<>>, c.s.env[c.env].depth)
             /\ c.op = "LetrecE2" =>
                  /\ b.op = "Letrec" /\ a.op = "LetrecGeneralize"
                  /\ c.body # 0 /\ c.body = a.body
                  /\ Holds(c.s, c.body, GeneralizedAt(a, a.type))

C27_BindingOrder == C27_BindingOrderOf(resJ) /\ C27_BindingOrderOf(resM)

\* J and M have both returned a type for an expression in which e2 of a Let and
\* e2 of a Letrec were reached, the Let having bound a scheme
C27_Witness ==
  \A run \in {resJ, resM} :
    /\ run.done /\ run.err = ""
    /\ \E k \in 1..Len(run.s.log) :
         run.s.log[k].op = "LetE2" /\ run.s.ti[run.s.log[k].body].gen
    /\ \E k \in 1..Len(run.s.log) : run.s.log[k].op = "LetrecE2"

====
